---------------------------- MODULE Spec2Model ----------------------------
(***************************************************************************)
(* A model of the live Texas Hold'em table of backend/app.py: the table    *)
(* state machine (start_game, progress_betting_round), the betting engine  *)
(* (process_player_action), the showdown resolver, the bot decision        *)
(* functions and the two timer maps (bot_action_timers, auto_deal_timers). *)
(* Seats are indexed from 0 as in the source; a deck is a 1-based sequence *)
(* of cards, a card being its index 0..51 in create_deck()'s order.        *)
(***************************************************************************)
EXTENDS Integers, Sequences, FiniteSets, TLC

VARIABLES
    games,              \* games: game_id -> game_state (app.py:27)
    auto_deal_timers,   \* auto_deal_timers[game_id]: "none" (no entry), "pending" or "done" timer
    auto_pending,       \* number of auto-deal Timer threads started, not yet fired or cancelled
    bot_action_timers,  \* bot_action_timers[game_id]: "none" (no entry), "pending" or "done" timer
    bot_pending,        \* number of bot-action Timer threads started, not yet fired or cancelled
    last,               \* the last operation and what it returned to its caller
    hands_dealt,        \* number of two-card hands dealt so far (bounds the exploration)
    paused              \* the handler thread suspended between reading a timer map and updating it

vars == <<games, auto_deal_timers, auto_pending, bot_action_timers, bot_pending, last,
          hands_dealt, paused>>

---------------------------------------------------------------------------
(* Bounds of the exploration. *)

\* The create_new_game requests explored: num_players, starting_chips,
\* small_blind and big_blind are request parameters (defaults 6, 1000, 5, 10).
TableConfigs ==
    { [num_players |-> 2, starting_chips |-> 4, small_blind |-> 1, big_blind |-> 2],
      [num_players |-> 3, starting_chips |-> 4, small_blind |-> 1, big_blind |-> 2] }
\* The amounts an action request or an advisory reply may carry.
Amounts == {0, 2, 4, 5}
\* Two-card hands dealt on one table over its life (seats dealt in, summed over the hands).
MaxDealt == 5
\* Shuffles the random permutation is drawn from: seeds 0..MaxShuffle.
MaxShuffle == 0
\* Shuffles drawn when only the dealing is explored: seeds 0..MaxDealSeed.
MaxDealSeed == 7
\* A handler thread is suspended only while fewer timers than this are pending.
MaxPending == 2
\* Two-card hands dealt on the heads-up table on which a timer outlives its hand.
MaxStaleDealt == 6
\* Seats of the largest table and two-card hands dealt when only hand starts are explored.
MaxStartSeats == 5
MaxStartDealt == 15
\* Hand strengths 0..MaxStrength and up to MaxOpponents opponents in a simulated trial.
MaxStrength == 2
MaxOpponents == 3

---------------------------------------------------------------------------
(* Program constants. *)

GAME_ID == "g1"

PLAYER_TYPE_HUMAN == "human"
PLAYER_TYPE_DEMO == "demo"
PLAYER_TYPE_LLM == "llm"

NumRanks == 13
NumSuits == 4
DeckSize == NumRanks * NumSuits

\* The value Python's None has as a player_id or an error.
None == "None"

Max(a, b) == IF a >= b THEN a ELSE b

\* The elements of a finite set of integers in increasing order.
RECURSIVE SortedSeq(_)
SortedSeq(S) ==
    IF S = {} THEN <<>>
    ELSE LET m == CHOOSE x \in S : \A y \in S : x <= y
         IN <<m>> \o SortedSeq(S \ {m})

RECURSIVE SumSeq(_)
SumSeq(s) == IF s = <<>> THEN 0 ELSE Head(s) + SumSeq(Tail(s))

Range(s) == {s[i] : i \in DOMAIN s}

---------------------------------------------------------------------------
(* Cards and decks. *)

\* create_deck: ranks outer, suits inner, so card c has rank c \div 4, suit c % 4.
create_deck == [i \in 1..DeckSize |-> i - 1]

CardRank(c) == c \div NumSuits
CardSuit(c) == c % NumSuits

\* The stride of the permutation that seed k stands for; every stride is coprime to 52.
Stride(k) == <<1, 3, 5, 7, 9, 11, 15, 17>>[(k % 8) + 1]

\* shuffle_deck: random.shuffle yields some permutation of the deck; the
\* exploration draws it from the permutations i -> Stride(k) * i + k (mod 52).
shuffle_deck(deck, k) ==
    [i \in 1..Len(deck) |-> deck[(((i - 1) * Stride(k) + k) % Len(deck)) + 1]]

ShuffleSeeds == 0..MaxShuffle

---------------------------------------------------------------------------
(* Seats and tables. *)

\* A seat as create_new_game builds it (app.py:798-811); acted_this_round is
\* absent there and read with .get(..., False), hence FALSE.
NewPlayer(type, chips) ==
    [ player_type |-> type, chips |-> chips, hole_cards |-> <<>>,
      is_dealer |-> FALSE, is_small_blind |-> FALSE, is_big_blind |-> FALSE,
      is_active |-> TRUE, pending_active |-> FALSE,
      current_bet |-> 0, folded |-> FALSE, acted_this_round |-> FALSE ]

\* Seat 0 is the human creator, seat 1 the demo bot, the others LLM bots.
SeatType(i) ==
    IF i = 0 THEN PLAYER_TYPE_HUMAN
    ELSE IF i = 1 THEN PLAYER_TYPE_DEMO ELSE PLAYER_TYPE_LLM

NumSeats(gs) == Cardinality(DOMAIN gs.players)

SeatIds(gs) == DOMAIN gs.players

\* [i for i, p in enumerate(players) if p["is_active"] and not p["pending_active"]]
ActiveIndices(players) ==
    SortedSeq({i \in DOMAIN players :
                  players[i].is_active /\ ~players[i].pending_active})

\* [p for p in players if p["is_active"] and not p["folded"]], as seat indices in order.
ActiveNotFolded(gs) ==
    SortedSeq({i \in DOMAIN gs.players :
                  gs.players[i].is_active /\ ~gs.players[i].folded})

\* Sum of all seats' chips plus the pot.
TotalChips(gs) ==
    SumSeq([k \in 1..NumSeats(gs) |-> gs.players[k - 1].chips]) + gs.pot

---------------------------------------------------------------------------
(* start_game (app.py:85-180). *)

\* Posting a blind: chips -= amount, current_bet = amount (no cap against the stack).
PostBlind(p, amount) ==
    [p EXCEPT !.chips = @ - amount, !.current_bet = amount]

\* Promote pending players to active (app.py:88-91).
PromotePending(players) ==
    [i \in DOMAIN players |->
        IF players[i].pending_active
        THEN [players[i] EXCEPT !.is_active = TRUE, !.pending_active = FALSE]
        ELSE players[i]]

\* Position (1-based) of seat i in the sequence ai.
IndexIn(ai, i) == CHOOSE j \in DOMAIN ai : ai[j] = i

\* Mutant: the first active seat always acts first pre-flop.
FirstToActPreFlop_AlwaysFirst(ai) == ai[1]

\* The seat that acts first pre-flop (app.py:151, 173-179).
FirstToActPreFlop(ai) ==
    LET cpi == IF Len(ai) = 2 THEN ai[1]
               ELSE IF Len(ai) > 3 THEN ai[4] ELSE ai[1]
    IN IF cpi \in Range(ai) THEN cpi ELSE ai[1]

\* The seat that posts the small blind / the big blind (app.py:133-139, 154-166).
SmallBlindIdx(ai) == IF Len(ai) = 2 THEN ai[1] ELSE ai[2]
BigBlindIdx(ai) == IF Len(ai) = 2 THEN ai[2] ELSE ai[3]

\* start_game with the shuffle of seed k.
start_game(gs, k) ==
    LET promoted == PromotePending(gs.players)
        ai == ActiveIndices(promoted)
        deck == shuffle_deck(create_deck, k)
        dealt ==
            [i \in DOMAIN promoted |->
                LET p == promoted[i]
                    q == IF i \in Range(ai)
                         THEN [p EXCEPT !.folded = FALSE, !.current_bet = 0,
                                        !.acted_this_round = FALSE,
                                        !.hole_cards =
                                            <<deck[2 * (IndexIn(ai, i) - 1) + 1],
                                              deck[2 * (IndexIn(ai, i) - 1) + 2]>>]
                         ELSE p
                IN [q EXCEPT !.is_dealer = (i = ai[1]),
                             !.is_small_blind = (i = SmallBlindIdx(ai)),
                             !.is_big_blind = (i = BigBlindIdx(ai))]]
        blinds ==
            [i \in DOMAIN dealt |->
                IF i = SmallBlindIdx(ai) THEN PostBlind(dealt[i], gs.small_blind)
                ELSE IF i = BigBlindIdx(ai) THEN PostBlind(dealt[i], gs.big_blind)
                ELSE dealt[i]]
    IN IF Len(ai) < 2
       THEN [gs EXCEPT !.players = promoted]
       ELSE [gs EXCEPT !.players = blinds,
                       !.community_cards = <<>>,
                       !.game_stage = "pre_flop",
                       !.pot = gs.small_blind + gs.big_blind,
                       !.current_player_index = FirstToActPreFlop(ai),
                       !.current_bet = gs.big_blind]

\* The number of seats start_game deals in from gs (0 if fewer than 2 are active).
SeatsDealt(gs) ==
    LET n == Len(ActiveIndices(PromotePending(gs.players)))
    IN IF n < 2 THEN 0 ELSE n

---------------------------------------------------------------------------
(* progress_betting_round (app.py:280-342). *)

\* Community cards and every seat's hole cards (app.py:301-302).
UsedCards(gs) ==
    Range(gs.community_cards)
        \cup UNION {Range(gs.players[i].hole_cards) : i \in DOMAIN gs.players}

\* Mutant: the used cards are not removed from the freshly shuffled deck.
AvailableCards_KeepsUsed(gs, k) ==
    shuffle_deck(create_deck, k)

\* [c for c in deck if c not in used_card_objs] of a freshly shuffled deck.
AvailableCards(gs, k) ==
    LET used == UsedCards(gs)
    IN SelectSeq(shuffle_deck(create_deck, k), LAMBDA c : c \notin used)

\* The stage after game_stage and the community cards dealt on entering it.
NextStage(stage) ==
    CASE stage = "pre_flop" -> "flop"
      [] stage = "flop" -> "turn"
      [] stage = "turn" -> "river"
      [] stage = "river" -> "showdown"
      [] OTHER -> stage

\* Mutant: the flop is dealt with four cards.
DealCommunity_FlopOfFour(gs, k) ==
    CASE gs.game_stage = "pre_flop" -> SubSeq(AvailableCards(gs, k), 1, 4)
      [] gs.game_stage = "flop" -> Append(gs.community_cards, AvailableCards(gs, k)[1])
      [] gs.game_stage = "turn" -> Append(gs.community_cards, AvailableCards(gs, k)[1])
      [] OTHER -> gs.community_cards

DealCommunity(gs, k) ==
    CASE gs.game_stage = "pre_flop" -> SubSeq(AvailableCards(gs, k), 1, 3)
      [] gs.game_stage = "flop" -> Append(gs.community_cards, AvailableCards(gs, k)[1])
      [] gs.game_stage = "turn" -> Append(gs.community_cards, AvailableCards(gs, k)[1])
      [] OTHER -> gs.community_cards

\* Reset bets for the next round (app.py:289-292).
ResetRound(players) ==
    [i \in DOMAIN players |->
        IF players[i].is_active /\ ~players[i].folded
        THEN [players[i] EXCEPT !.current_bet = 0, !.acted_this_round = FALSE]
        ELSE players[i]]

\* First player to act in the new round (app.py:331-342): the small blind
\* seat if it is active, else the first active non-folded non-dealer seat.
FirstToActPostFlop(gs) ==
    LET sb == {i \in DOMAIN gs.players :
                  gs.players[i].is_active /\ gs.players[i].is_small_blind}
        nd == {i \in DOMAIN gs.players :
                  gs.players[i].is_active /\ ~gs.players[i].folded
                      /\ ~gs.players[i].is_dealer}
    IN IF Len(ActiveNotFolded(gs)) > 1
       THEN IF sb # {} THEN SortedSeq(sb)[1]
            ELSE IF nd # {} THEN SortedSeq(nd)[1]
            ELSE gs.current_player_index
       ELSE gs.current_player_index

progress_betting_round(gs, k) ==
    IF Len(ActiveNotFolded(gs)) <= 1
    THEN [gs EXCEPT !.game_stage = "showdown"]
    ELSE LET reset == [gs EXCEPT !.players = ResetRound(gs.players),
                                 !.current_bet = 0]
             moved == [reset EXCEPT !.community_cards = DealCommunity(reset, k),
                                    !.game_stage = NextStage(reset.game_stage)]
         IN [moved EXCEPT !.current_player_index = FirstToActPostFlop(moved)]

---------------------------------------------------------------------------
(* Showdown (app.py:183-224). *)

\* Stand-in for pokerkit's StandardHighHand.from_game(hole, board), an external
\* hand ranker: a totally ordered strength in which ties are possible. Here the
\* largest group of equal ranks decides, then its rank, then the highest card.
HandValue(hole, board) ==
    LET cards == Range(hole) \cup Range(board)
        mult(r) == Cardinality({c \in cards : CardRank(c) = r})
        ranks == {CardRank(c) : c \in cards}
        m == CHOOSE x \in {mult(r) : r \in ranks} :
                 \A r \in ranks : mult(r) <= x
        top == CHOOSE r \in ranks :
                 mult(r) = m /\ \A q \in ranks : mult(q) = m => q <= r
        high == CHOOSE r \in ranks : \A q \in ranks : q <= r
    IN (m * NumRanks + top) * NumRanks + high

\* The loop of app.py:211-220 over the seats of anf[1..n]: the seat kept as winner,
\* -1 standing for None. A later seat replaces the winner only with a strictly greater hand.
\* Mutant: a later seat with an equal hand replaces the winner.
RECURSIVE BestHandWinner_LastMaximal(_, _, _)
BestHandWinner_LastMaximal(gs, anf, n) ==
    IF n = 0 THEN -1
    ELSE LET prev == BestHandWinner_LastMaximal(gs, anf, n - 1)
             i == anf[n]
             value(j) == HandValue(gs.players[j].hole_cards, gs.community_cards)
         IN IF Len(gs.players[i].hole_cards) < 2 THEN prev
            ELSE IF prev = -1 \/ value(i) >= value(prev) THEN i
            ELSE prev

RECURSIVE BestHandWinner(_, _, _)
BestHandWinner(gs, anf, n) ==
    IF n = 0 THEN -1
    ELSE LET prev == BestHandWinner(gs, anf, n - 1)
             i == anf[n]
             value(j) == HandValue(gs.players[j].hole_cards, gs.community_cards)
         IN IF Len(gs.players[i].hole_cards) < 2 THEN prev
            ELSE IF prev = -1 \/ value(i) > value(prev) THEN i
            ELSE prev

\* The seat resolve_showdown awards the pot to, -1 if none.
ShowdownWinner(gs) ==
    LET anf == ActiveNotFolded(gs)
    IN IF Len(anf) = 0 THEN -1
       ELSE IF Len(anf) = 1 THEN anf[1]
       ELSE IF Len(gs.community_cards) < 5 THEN anf[1]
       ELSE BestHandWinner(gs, anf, Len(anf))

\* Mutant: the winner is paid but the pot is not emptied.
resolve_showdown_KeepsPot(gs) ==
    LET w == ShowdownWinner(gs)
    IN IF w = -1 THEN gs
       ELSE [gs EXCEPT !.players[w].chips = @ + gs.pot]

resolve_showdown(gs) ==
    LET w == ShowdownWinner(gs)
    IN IF w = -1 THEN gs
       ELSE [gs EXCEPT !.players[w].chips = @ + gs.pot, !.pot = 0]

---------------------------------------------------------------------------
(* The betting engine (app.py:227-243, 349-378, 535-616). *)

Actions == {"fold", "check", "call", "raise"}

\* JSON values a request or an advisory reply may carry.
JInt(n) == [t |-> "int", v |-> n]
JNull == [t |-> "null", v |-> 0]
JStr == [t |-> "str", v |-> 0]
\* A string that is the decimal literal of n, and the number n + 0.5.
JNumStr(n) == [t |-> "numstr", v |-> n]
JFloat(n) == [t |-> "float", v |-> n]

ERR_UNASSIGNED == "Player ID not assigned yet. Please wait for player_assigned event"
ERR_INVALID_ACTION == "Invalid action"
ERR_INVALID_SEAT == "Invalid player ID"
ERR_NOT_YOUR_TURN == "Not your turn"
ERR_INACTIVE == "Player not active"
ERR_MUST_CALL == "Cannot check, must call or fold"
ERR_CALL_CHIPS == "Insufficient chips to call"
ERR_RAISE_SMALL == "Raise must be at least"
ERR_RAISE_CHIPS == "Insufficient chips to raise"

is_betting_round_complete(gs) ==
    LET anf == Range(ActiveNotFolded(gs))
    IN \/ Cardinality(anf) <= 1
       \/ \A i \in anf : /\ gs.players[i].acted_this_round
                         /\ ~(gs.players[i].current_bet < gs.current_bet)

min_raise(gs) == Max(gs.current_bet + gs.big_blind, gs.current_bet * 2)

max_raise(p) == p.current_bet + p.chips

\* Mutant: raise is offered to a seat without chips.
compute_valid_actions_NoChipsTest(gs, p) ==
    [ valid_actions |->
          {"fold"}
              \cup (IF gs.current_bet = p.current_bet THEN {"check"} ELSE {"call"})
              \cup (IF max_raise(p) >= min_raise(gs) THEN {"raise"} ELSE {}),
      min_raise |-> min_raise(gs),
      max_raise |-> max_raise(p) ]

compute_valid_actions(gs, p) ==
    [ valid_actions |->
          {"fold"}
              \cup (IF gs.current_bet = p.current_bet THEN {"check"} ELSE {"call"})
              \cup (IF max_raise(p) >= min_raise(gs) /\ p.chips > 0
                    THEN {"raise"} ELSE {}),
      min_raise |-> min_raise(gs),
      max_raise |-> max_raise(p) ]

\* Mutant: a seat that cannot check folds instead of calling.
safe_default_action_FoldsEarly(gs, p) ==
    LET info == compute_valid_actions(gs, p)
    IN IF "check" \in info.valid_actions THEN [action |-> "check", amount |-> 0]
       ELSE [action |-> "fold", amount |-> 0]

safe_default_action(gs, p) ==
    LET info == compute_valid_actions(gs, p)
    IN IF "check" \in info.valid_actions THEN [action |-> "check", amount |-> 0]
       ELSE IF "call" \in info.valid_actions THEN [action |-> "call", amount |-> 0]
       ELSE [action |-> "fold", amount |-> 0]

\* players[player_id] with Python's indexing: a negative index counts from the end.
PyIndex(gs, v) == IF v < 0 THEN v + NumSeats(gs) ELSE v

\* The checks of app.py:538-553: the rejection, or None.
ValidateRequest(gs, pid, action) ==
    IF pid.t # "int" THEN ERR_UNASSIGNED
    ELSE IF action \notin Actions THEN ERR_INVALID_ACTION
    ELSE IF pid.v >= NumSeats(gs) THEN ERR_INVALID_SEAT
    ELSE IF pid.v # gs.current_player_index THEN ERR_NOT_YOUR_TURN
    ELSE IF ~gs.players[PyIndex(gs, pid.v)].is_active THEN ERR_INACTIVE
    ELSE None

Accept(gs) == [game_state |-> gs, error |-> None]
Reject(gs, e) == [game_state |-> gs, error |-> e]

ApplyFold(gs, i) ==
    Accept([gs EXCEPT !.players[i].folded = TRUE,
                      !.players[i].acted_this_round = TRUE])

\* Mutant: a check does not count as the seat's action of the round.
ApplyCheck_NotCounted(gs, i) ==
    IF gs.current_bet > gs.players[i].current_bet
    THEN Reject(gs, ERR_MUST_CALL)
    ELSE Accept(gs)

ApplyCheck(gs, i) ==
    IF gs.current_bet > gs.players[i].current_bet
    THEN Reject(gs, ERR_MUST_CALL)
    ELSE Accept([gs EXCEPT !.players[i].acted_this_round = TRUE])

\* Mutant: the call amount is deducted before the stack is checked.
ApplyCall_DeductsFirst(gs, i) ==
    LET call_amount == gs.current_bet - gs.players[i].current_bet
        paid == [gs EXCEPT !.players[i].chips = @ - call_amount,
                           !.players[i].current_bet = gs.current_bet,
                           !.pot = @ + call_amount,
                           !.players[i].acted_this_round = TRUE]
    IN IF call_amount > gs.players[i].chips
       THEN Reject(paid, ERR_CALL_CHIPS)
       ELSE Accept(paid)

\* Mutant: a call of the seat's whole stack is refused.
ApplyCall_RefusesAllIn(gs, i) ==
    LET call_amount == gs.current_bet - gs.players[i].current_bet
    IN IF call_amount >= gs.players[i].chips /\ call_amount > 0
       THEN Reject(gs, ERR_CALL_CHIPS)
       ELSE Accept([gs EXCEPT !.players[i].chips = @ - call_amount,
                              !.players[i].current_bet = gs.current_bet,
                              !.pot = @ + call_amount,
                              !.players[i].acted_this_round = TRUE])

ApplyCall(gs, i) ==
    LET call_amount == gs.current_bet - gs.players[i].current_bet
    IN IF call_amount > gs.players[i].chips
       THEN Reject(gs, ERR_CALL_CHIPS)
       ELSE Accept([gs EXCEPT !.players[i].chips = @ - call_amount,
                              !.players[i].current_bet = gs.current_bet,
                              !.pot = @ + call_amount,
                              !.players[i].acted_this_round = TRUE])

\* Mutant: the stack is compared with the raise total, not with the difference.
ApplyRaise_IgnoresBet(gs, i, amount) ==
    LET bet_diff == amount - gs.players[i].current_bet
    IN IF amount < min_raise(gs)
       THEN Reject(gs, ERR_RAISE_SMALL)
       ELSE IF amount > gs.players[i].chips
       THEN Reject(gs, ERR_RAISE_CHIPS)
       ELSE Accept([gs EXCEPT !.players[i].chips = @ - bet_diff,
                              !.players[i].current_bet = amount,
                              !.current_bet = amount,
                              !.pot = @ + bet_diff,
                              !.players[i].acted_this_round = TRUE])

ApplyRaise(gs, i, amount) ==
    LET bet_diff == amount - gs.players[i].current_bet
    IN IF amount < min_raise(gs)
       THEN Reject(gs, ERR_RAISE_SMALL)
       ELSE IF bet_diff > gs.players[i].chips
       THEN Reject(gs, ERR_RAISE_CHIPS)
       ELSE Accept([gs EXCEPT !.players[i].chips = @ - bet_diff,
                              !.players[i].current_bet = amount,
                              !.current_bet = amount,
                              !.pot = @ + bet_diff,
                              !.players[i].acted_this_round = TRUE])

\* The action's effect on the acting seat (app.py:555-587).
ApplyAction(gs, i, action, amount) ==
    CASE action = "fold" -> ApplyFold(gs, i)
      [] action = "check" -> ApplyCheck(gs, i)
      [] action = "call" -> ApplyCall(gs, i)
      [] action = "raise" -> ApplyRaise(gs, i, amount)

\* Mutant: the scan does not pass over the seats that have acted this round.
NextToAct_IgnoresActed(gs) ==
    LET n == NumSeats(gs)
        seat(j) == (gs.current_player_index + 1 + j) % n
        ok(i) == gs.players[i].is_active /\ ~gs.players[i].folded
        hits == {j \in 0..(n - 1) : ok(seat(j))}
    IN IF hits = {} THEN -1 ELSE seat(SortedSeq(hits)[1])

\* The scan of app.py:597-611: the first seat from (current_player_index + 1) mod N,
\* in at most N attempts, that is active, not folded and has not acted; -1 if none.
NextToAct(gs) ==
    LET n == NumSeats(gs)
        seat(j) == (gs.current_player_index + 1 + j) % n
        ok(i) == /\ gs.players[i].is_active
                 /\ ~gs.players[i].folded
                 /\ ~gs.players[i].acted_this_round
        hits == {j \in 0..(n - 1) : ok(seat(j))}
    IN IF hits = {} THEN -1 ELSE seat(SortedSeq(hits)[1])

\* Turn advancement after an accepted action (app.py:589-614).
AdvanceTurn(gs, k) ==
    IF Len(ActiveNotFolded(gs)) <= 1
    THEN [gs EXCEPT !.game_stage = "showdown"]
    ELSE IF is_betting_round_complete(gs)
    THEN progress_betting_round(gs, k)
    ELSE IF NextToAct(gs) # -1
    THEN [gs EXCEPT !.current_player_index = NextToAct(gs)]
    ELSE progress_betting_round(gs, k)

\* process_player_action after its request checks (app.py:555-631): the action
\* is applied for seat i to the table as it is now.
ApplyChecked(gs, i, action, amount, k) ==
    LET r == ApplyAction(gs, i, action, amount)
        moved == AdvanceTurn(r.game_state, k)
    IN IF r.error # None THEN r
       ELSE IF moved.game_stage = "showdown"
       THEN Accept(resolve_showdown(moved))
       ELSE Accept(moved)

\* process_player_action up to games[game_id] = game_state (app.py:535-616),
\* followed by resolve_showdown when the stage is showdown (app.py:630-631).
process_player_action(gs, pid, action, amount, k) ==
    LET e == ValidateRequest(gs, pid, action)
        r == ApplyAction(gs, PyIndex(gs, pid.v), action, amount)
        moved == AdvanceTurn(r.game_state, k)
    IN IF e # None THEN Reject(gs, e)
       ELSE IF r.error # None THEN r
       ELSE IF moved.game_stage = "showdown"
       THEN Accept(resolve_showdown(moved))
       ELSE Accept(moved)

---------------------------------------------------------------------------
(* Bot decisions (app.py:345-346, 381-484). *)

\* Mutant: every seat counts as a bot.
is_bot_player_AnySeat(p) ==
    p.player_type \in {PLAYER_TYPE_HUMAN, PLAYER_TYPE_DEMO, PLAYER_TYPE_LLM}

is_bot_player(p) == p.player_type \in {PLAYER_TYPE_DEMO, PLAYER_TYPE_LLM}

\* app.py's demo bot is the placeholder policy.
demo_bot_action(gs, p) == safe_default_action(gs, p)

\* players.py's demo_bot_action, which app.py does not import: the heuristic
\* policy, with the estimate of estimate_equity given in percent. The Kelly
\* bet size int(chips * max(2 * equity - 1, 0) * 0.5) is chips * kelly \div 200.
players_demo_bot_action(gs, p, equity) ==
    LET info == compute_valid_actions(gs, p)
        to_call == Max(gs.current_bet - p.current_bet, 0)
        kelly == Max(2 * equity - 100, 0)
        bet_size == (p.chips * kelly) \div 200
        sized == gs.current_bet + Max(bet_size, gs.big_blind)
        floored == Max(sized, info.min_raise)
        raise_to == IF floored <= info.max_raise THEN floored ELSE info.max_raise
    IN IF to_call > 0 /\ equity < 35 /\ "fold" \in info.valid_actions
       THEN [action |-> "fold", amount |-> 0]
       ELSE IF equity >= 60 /\ "raise" \in info.valid_actions
                           /\ raise_to >= info.min_raise
       THEN [action |-> "raise", amount |-> raise_to]
       ELSE IF "call" \in info.valid_actions /\ to_call > 0
       THEN [action |-> "call", amount |-> 0]
       ELSE [action |-> "check", amount |-> 0]

\* A JSON value of an advisory reply: an object with its "action" and "amount"
\* members, or a value of another type ("truthy": a non-zero number, a non-empty
\* string or list, true; "falsy": 0, "", [], {}, false, null).
JObject(action, amount) == [t |-> "object", action |-> action, amount |-> amount]
JTruthy == [t |-> "truthy", action |-> "", amount |-> JNull]
JFalsy == [t |-> "falsy", action |-> "", amount |-> JNull]
ParsedNone == [t |-> "none", action |-> "", amount |-> JNull]

\* What call_ollama returns: None (unreachable), or a text of one of these forms:
\* "empty"; "json" (the whole text is JSON); "embedded" (prose around one JSON
\* object); "text" (no JSON in it). value is the JSON value the text holds.
Content(form, value) == [form |-> form, value |-> value]

\* parse_llm_action(content or ""): json.loads of the whole text, else of the
\* substring from the first "{" to the last "}", else None.
parse_llm_action(content) ==
    CASE content.form \in {"none", "empty"} -> ParsedNone
      [] content.form = "json" -> content.value
      [] content.form = "embedded" -> content.value
      [] OTHER -> ParsedNone

\* int(amount): an integer is itself, a decimal string is parsed, a float
\* n + 0.5 (n >= 0) is truncated to n; None and any other string raise an
\* exception that llm_bot_action catches (ok = FALSE).
PyInt(amount) ==
    IF amount.t \in {"int", "numstr", "float"} THEN [ok |-> TRUE, v |-> amount.v]
    ELSE [ok |-> FALSE, v |-> 0]

Decision(action, amount) == [raised |-> FALSE, action |-> action, amount |-> amount]
SafeDefault(gs, p) ==
    Decision(safe_default_action(gs, p).action, safe_default_action(gs, p).amount)
\* parsed.get on a value that is no dict raises AttributeError out of llm_bot_action.
Raised == [raised |-> TRUE, action |-> "", amount |-> 0]

llm_bot_action(gs, p, content) ==
    LET info == compute_valid_actions(gs, p)
        parsed == parse_llm_action(content)
        amount_val == PyInt(parsed.amount)
    IN IF parsed.t \in {"none", "falsy"} THEN SafeDefault(gs, p)
       ELSE IF parsed.t # "object" THEN Raised
       ELSE IF parsed.action \notin info.valid_actions THEN SafeDefault(gs, p)
       ELSE IF parsed.action = "raise"
       THEN IF ~amount_val.ok THEN SafeDefault(gs, p)
            ELSE IF amount_val.v < info.min_raise \/ amount_val.v > info.max_raise
            THEN SafeDefault(gs, p)
            ELSE Decision("raise", amount_val.v)
       ELSE Decision(parsed.action, 0)

---------------------------------------------------------------------------
(* Timers (app.py:487-507, 630-640). A Timer is pending from start() until it
   fires or is cancelled; each map keeps a reference to the last Timer stored. *)

\* Whether maybe_trigger_bot_turn schedules a bot decision (app.py:491-498).
BotDue(gs) ==
    /\ gs.game_stage \notin {"waiting", "showdown"}
    /\ gs.current_player_index \in DOMAIN gs.players
    /\ LET p == gs.players[gs.current_player_index]
       IN p.is_active /\ ~p.folded /\ is_bot_player(p)

\* Mutant: the referenced timer is cancelled and no new Timer is started.
Reschedule_CancelOnly(ref, pending) ==
    [ref |-> IF ref = "pending" THEN "done" ELSE ref,
     pending |-> IF ref = "pending" THEN pending - 1 ELSE pending]

\* existing.cancel() on the referenced timer, then a new Timer stored in the map.
Reschedule(ref, pending) ==
    [ref |-> "pending",
     pending |-> (IF ref = "pending" THEN pending - 1 ELSE pending) + 1]

maybe_trigger_bot_turn(gs, ref, pending) ==
    IF BotDue(gs) THEN Reschedule(ref, pending)
    ELSE [ref |-> ref, pending |-> pending]

\* The timer that fires: the one the map references, or another pending one.
CanFire(which, ref, pending) ==
    \/ which = "ref" /\ ref = "pending"
    \/ which = "other" /\ pending > (IF ref = "pending" THEN 1 ELSE 0)

AfterFire(which, ref) == IF which = "ref" THEN "done" ELSE ref

\* existing.cancel() alone: the referenced timer stops being pending.
Cancel(ref, pending) ==
    [ref |-> IF ref = "pending" THEN "done" ELSE ref,
     pending |-> IF ref = "pending" THEN pending - 1 ELSE pending]

\* timer.start() and the store of the new Timer in the map.
Start(pending) == [ref |-> "pending", pending |-> pending + 1]

---------------------------------------------------------------------------
(* The state machine. *)

\* What an operation reports: its name, the error it returns (None if it
\* succeeds) and, for an accepted action, the seat and action of the emitted
\* 'game_action' event (app.py:619-628).
Event(op, error, seat, action) ==
    [op |-> op, error |-> error, seat |-> seat, action |-> action]

\* A handler thread suspended at the point `kind`; a request suspended after
\* its turn check also holds the seat and the action it was checked for.
Paused(kind, seat, action) == [kind |-> kind, seat |-> seat, action |-> action]

\* No handler thread is suspended.
NotPaused == Paused("none", -1, "")

Init ==
    /\ games = <<>>
    /\ auto_deal_timers = "none"
    /\ auto_pending = 0
    /\ bot_action_timers = "none"
    /\ bot_pending = 0
    /\ last = Event("init", None, -1, "")
    /\ hands_dealt = 0
    /\ paused = NotPaused

Exists == GAME_ID \in DOMAIN games

Table == games[GAME_ID]

\* Inputs of an action request.
PlayerIds == {JNull} \cup {JInt(v) : v \in -1..3}
ActionNames == Actions \cup {"bet"}
AmountsOf(action) == IF action = "raise" THEN Amounts ELSE {0}

\* Replies of the advisory capability explored.
LLMContents ==
    {Content("none", ParsedNone), Content("text", ParsedNone),
     Content("json", JTruthy), Content("json", JFalsy),
     Content("json", JObject("raise", JStr)),
     Content("json", JObject("raise", JNull)),
     Content("json", JObject("raise", JNumStr(4))),
     Content("json", JObject("raise", JFloat(4))),
     Content("json", JObject("bet", JInt(4))),
     Content("empty", ParsedNone),
     Content("embedded", JObject("fold", JNull)),
     Content("json", JObject("check", JNull)),
     Content("json", JObject("call", JNull))}
        \cup {Content("json", JObject("raise", JInt(a))) : a \in Amounts}

\* create_new_game (app.py:773-837).
CreateNewGame(cfg, k) ==
    /\ ~Exists
    /\ LET gs0 == [ community_cards |-> <<>>, pot |-> 0, current_bet |-> 0,
                    players |-> [i \in 0..(cfg.num_players - 1) |->
                                    NewPlayer(SeatType(i), cfg.starting_chips)],
                    current_player_index |-> -1, game_stage |-> "waiting",
                    small_blind |-> cfg.small_blind, big_blind |-> cfg.big_blind,
                    max_players |-> cfg.num_players,
                    starting_chips |-> cfg.starting_chips ]
           gs1 == IF cfg.num_players >= 2 THEN start_game(gs0, k) ELSE gs0
           bot == maybe_trigger_bot_turn(gs1, bot_action_timers, bot_pending)
       IN /\ games' = [g \in {GAME_ID} |-> gs1]
          /\ bot_action_timers' = bot.ref
          /\ bot_pending' = bot.pending
          /\ hands_dealt' = IF cfg.num_players >= 2 THEN SeatsDealt(gs0) ELSE 0
    /\ last' = Event("create_new_game", None, -1, "")
    /\ UNCHANGED <<auto_deal_timers, auto_pending, paused>>

\* The tail of process_player_action after an accepted action (app.py:630-640):
\* at showdown the auto-deal timer is cancelled and a new one started, otherwise
\* maybe_trigger_bot_turn runs. bref, bpend: the bot timers before the tail.
AfterAccepted(gs, bref, bpend) ==
    IF gs.game_stage = "showdown"
    THEN LET auto == Reschedule(auto_deal_timers, auto_pending)
         IN /\ auto_deal_timers' = auto.ref
            /\ auto_pending' = auto.pending
            /\ bot_action_timers' = bref
            /\ bot_pending' = bpend
    ELSE LET bot == maybe_trigger_bot_turn(gs, bref, bpend)
         IN /\ bot_action_timers' = bot.ref
            /\ bot_pending' = bot.pending
            /\ UNCHANGED <<auto_deal_timers, auto_pending>>

\* The shuffles a request can draw: progress_betting_round shuffles a deck only
\* when an accepted action ends a betting round; a request that is rejected
\* draws none, so one seed stands for all.
SeedsFor(gs, pid, action, amount) ==
    IF process_player_action(gs, pid, action, amount, 0).error # None
    THEN {0} ELSE ShuffleSeeds

\* POST /game/<id>/action (app.py:913-935) and process_player_action.
PlayerAction(pid, action, amount) ==
    /\ Exists
    /\ \E k \in SeedsFor(Table, pid, action, amount) :
          LET r == process_player_action(Table, pid, action, amount, k)
          IN IF r.error # None
             THEN /\ games' = [games EXCEPT ![GAME_ID] = r.game_state]
                  /\ last' = Event("player_action", r.error, -1, "")
                  /\ UNCHANGED <<auto_deal_timers, auto_pending,
                                 bot_action_timers, bot_pending>>
             ELSE /\ games' = [games EXCEPT ![GAME_ID] = r.game_state]
                  /\ AfterAccepted(r.game_state, bot_action_timers, bot_pending)
                  /\ last' = Event("player_action", None, pid.v, action)
    /\ UNCHANGED <<hands_dealt, paused>>

\* A bot-action timer fires: bot_take_action (app.py:510-532).
BotTimerFires(which, content) ==
    /\ Exists
    /\ CanFire(which, bot_action_timers, bot_pending)
    /\ \E k \in ShuffleSeeds :
       LET bref == AfterFire(which, bot_action_timers)
           bpend == bot_pending - 1
           idx == Table.current_player_index
           due == /\ idx \in DOMAIN Table.players
                  /\ Table.players[idx].is_active
                  /\ ~Table.players[idx].folded
                  /\ is_bot_player(Table.players[idx])
           p == Table.players[idx]
           d == IF p.player_type = PLAYER_TYPE_DEMO
                THEN Decision(demo_bot_action(Table, p).action,
                              demo_bot_action(Table, p).amount)
                ELSE llm_bot_action(Table, p, content)
           r == process_player_action(Table, JInt(idx), d.action, d.amount, k)
           skip(gs, e) == /\ games' = [games EXCEPT ![GAME_ID] = gs]
                          /\ last' = Event("bot_take_action", e, -1, "")
                          /\ bot_action_timers' = bref
                          /\ bot_pending' = bpend
                          /\ UNCHANGED <<auto_deal_timers, auto_pending>>
       IN IF ~due THEN skip(Table, "not due")
          ELSE IF d.raised THEN skip(Table, "AttributeError")
          ELSE IF r.error # None THEN skip(r.game_state, r.error)
          ELSE /\ games' = [games EXCEPT ![GAME_ID] = r.game_state]
               /\ AfterAccepted(r.game_state, bref, bpend)
               /\ last' = Event("bot_take_action", None, idx, d.action)
    /\ UNCHANGED <<hands_dealt, paused>>

\* An auto-deal timer fires: auto_deal_next_hand (app.py:258-277).
AutoDealFires(which, k) ==
    /\ Exists
    /\ CanFire(which, auto_deal_timers, auto_pending)
    /\ hands_dealt + SeatsDealt(Table) <= MaxDealt
    /\ LET gs == start_game(Table, k)
           bot == maybe_trigger_bot_turn(gs, bot_action_timers, bot_pending)
       IN /\ games' = [games EXCEPT ![GAME_ID] = gs]
          /\ bot_action_timers' = bot.ref
          /\ bot_pending' = bot.pending
          /\ hands_dealt' = hands_dealt + SeatsDealt(Table)
    /\ auto_deal_timers' = "none"
    /\ auto_pending' = auto_pending - 1
    /\ last' = Event("auto_deal_next_hand", None, -1, "")
    /\ UNCHANGED paused

\* POST /game/<id>/deal (app.py:753-770).
ManualDeal(k) ==
    /\ Exists
    /\ hands_dealt + SeatsDealt(Table) <= MaxDealt
    /\ games' = [games EXCEPT ![GAME_ID] = start_game(Table, k)]
    /\ hands_dealt' = hands_dealt + SeatsDealt(Table)
    /\ last' = Event("manual_deal_next_hand", None, -1, "")
    /\ UNCHANGED <<auto_deal_timers, auto_pending, bot_action_timers, bot_pending, paused>>

\* POST /game/<id>/join (app.py:849-909).
JoinGame(k) ==
    /\ Exists
    /\ LET free == {i \in DOMAIN Table.players :
                       ~Table.players[i].is_active /\ ~Table.players[i].pending_active}
           seat == SortedSeq(free)[1]
           waiting == Table.game_stage = "waiting"
           joined == [Table EXCEPT !.players[seat].is_active = waiting,
                                   !.players[seat].pending_active = ~waiting]
           active_count == Cardinality({i \in DOMAIN joined.players :
                                           joined.players[i].is_active})
           starts == active_count = joined.max_players /\ waiting
       IN IF free = {}
          THEN /\ last' = Event("join_game", "No available seats", -1, "")
               /\ UNCHANGED <<games, hands_dealt>>
          ELSE /\ games' = [games EXCEPT ![GAME_ID] =
                               IF starts THEN start_game(joined, k) ELSE joined]
               /\ hands_dealt' = IF starts THEN hands_dealt + SeatsDealt(joined) ELSE hands_dealt
               /\ last' = Event("join_game", None, seat, "")
    /\ UNCHANGED <<auto_deal_timers, auto_pending, bot_action_timers, bot_pending, paused>>

Next ==
    \/ \E cfg \in TableConfigs, k \in ShuffleSeeds : CreateNewGame(cfg, k)
    \/ \E pid \in PlayerIds, action \in ActionNames :
          \E amount \in AmountsOf(action) : PlayerAction(pid, action, amount)
    \/ \E which \in {"ref", "other"}, content \in LLMContents :
          BotTimerFires(which, content)
    \/ \E which \in {"ref", "other"}, k \in ShuffleSeeds : AutoDealFires(which, k)
    \/ \E k \in ShuffleSeeds : ManualDeal(k)
    \/ \E k \in ShuffleSeeds : JoinGame(k)

Spec == Init /\ [][Next]_vars

---------------------------------------------------------------------------
(* Every handler of Spec, with a pending auto-deal timer that does fire: a
   threading.Timer that is started and not cancelled runs its callback after
   its delay (app.py:635-638). *)

\* A pending auto-deal timer fires.
AutoFires ==
    \E which \in {"ref", "other"}, k \in ShuffleSeeds : AutoDealFires(which, k)

\* An auto-deal timer is pending and the hand it deals is within the hands explored.
AutoEnabled ==
    /\ Exists
    /\ auto_pending > 0
    /\ hands_dealt + SeatsDealt(Table) <= MaxDealt

\* Weak fairness of AutoFires, WF_vars(AutoFires), with the enabling condition
\* written as the state predicate AutoEnabled.
SpecAuto ==
    /\ Init
    /\ [][Next]_vars
    /\ ([]<>~AutoEnabled \/ []<><<AutoFires>>_vars)

---------------------------------------------------------------------------
(* Hands played out: a table on which hands end only by play. Requests and
   bot timers act, the auto-deal timer started at showdown deals the next
   hand, and the seat due to act is not kept waiting for ever. *)

\* The seat due to act submits an action that is accepted.
DueSeatActs ==
    /\ Exists
    /\ \E action \in Actions :
          \E amount \in AmountsOf(action) :
             /\ PlayerAction(JInt(Table.current_player_index), action, amount)
             /\ last'.error = None

\* A seat is due to act in a betting stage; its fold is then accepted
\* (app.py:538-557), so DueSeatActs is enabled.
DueEnabled ==
    /\ Exists
    /\ Table.game_stage \in {"pre_flop", "flop", "turn", "river"}
    /\ Table.current_player_index \in DOMAIN Table.players
    /\ Table.players[Table.current_player_index].is_active

PlayNext ==
    \/ \E cfg \in TableConfigs, k \in ShuffleSeeds : CreateNewGame(cfg, k)
    \/ \E pid \in PlayerIds, action \in ActionNames :
          \E amount \in AmountsOf(action) : PlayerAction(pid, action, amount)
    \/ \E which \in {"ref", "other"}, content \in LLMContents :
          BotTimerFires(which, content)
    \/ \E which \in {"ref", "other"}, k \in ShuffleSeeds : AutoDealFires(which, k)

\* Weak fairness of DueSeatActs, WF_vars(DueSeatActs), with the enabling
\* condition written as the state predicate DueEnabled: a seat that stays due
\* does act.
SpecPlay ==
    /\ Init
    /\ [][PlayNext]_vars
    /\ ([]<>~DueEnabled \/ []<><<DueSeatActs>>_vars)

---------------------------------------------------------------------------
(* The pure decision functions applied to tables drawn from bounded sets:
   seat 0 is the seat the function is applied to, seats 1 and 2 its opponents. *)

FnChips == {0, 2, 6}
FnSeatBets == {0, 2, 4}
FnOpponentBets == {0, 2}
FnTableBets == {0, 2, 4}
FnBigBlinds == {1, 2}

FnSeat(chips, bet, folded, acted) ==
    [NewPlayer(PLAYER_TYPE_DEMO, chips) EXCEPT
        !.current_bet = bet, !.folded = folded, !.acted_this_round = acted]

FnSeats == {FnSeat(c, b, f, a) :
               c \in FnChips, b \in FnSeatBets, f \in BOOLEAN, a \in BOOLEAN}

FnOpponents == {FnSeat(2, b, f, a) :
                   b \in FnOpponentBets, f \in BOOLEAN, a \in BOOLEAN}

FnTable(cb, bb, s0, s1, s2) ==
    [ community_cards |-> <<>>, pot |-> 0, current_bet |-> cb,
      players |-> [i \in 0..2 |-> IF i = 0 THEN s0 ELSE IF i = 1 THEN s1 ELSE s2],
      current_player_index |-> 0, game_stage |-> "flop",
      small_blind |-> 1, big_blind |-> bb, max_players |-> 3, starting_chips |-> 6 ]

FnInit ==
    /\ games \in {[g \in {GAME_ID} |-> FnTable(cb, bb, s0, s1, s2)] :
                     cb \in FnTableBets, bb \in FnBigBlinds, s0 \in FnSeats,
                     s1 \in FnOpponents, s2 \in FnOpponents}
    /\ auto_deal_timers = "none"
    /\ auto_pending = 0
    /\ bot_action_timers = "none"
    /\ bot_pending = 0
    /\ last = [op |-> "init"]
    /\ hands_dealt = 0
    /\ paused = NotPaused

FnSeat0 == Table.players[0]

FnFrame == UNCHANGED <<games, auto_deal_timers, auto_pending,
                       bot_action_timers, bot_pending, hands_dealt, paused>>

\* Each function is applied to a table as drawn by FnInit.
FnFresh == last.op = "init"

FnComputeValidActions ==
    /\ FnFresh
    /\ last' = [op |-> "compute_valid_actions",
                result |-> compute_valid_actions(Table, FnSeat0)]
    /\ FnFrame

FnSafeDefaultAction ==
    /\ FnFresh
    /\ last' = [op |-> "safe_default_action",
                result |-> safe_default_action(Table, FnSeat0)]
    /\ FnFrame

\* llm_bot_action applied to seat 0 with the advisory reply content.
FnLlmBotAction(content) ==
    /\ FnFresh
    /\ last' = [op |-> "llm_bot_action", content |-> content,
                result |-> llm_bot_action(Table, FnSeat0, content)]
    /\ FnFrame

\* Equity estimates (percent) the demo bot is given.
FnEquities == {10, 50, 90}

\* bot_take_action's decision for a demo seat (app.py:521-522), seat 0 here,
\* next to the decision of players.py's heuristic for the same seat and equity.
FnDemoBotAction(equity) ==
    /\ FnFresh
    /\ last' = [op |-> "demo_bot_action", equity |-> equity,
                result |-> demo_bot_action(Table, FnSeat0),
                heuristic |-> players_demo_bot_action(Table, FnSeat0, equity)]
    /\ FnFrame

\* is_betting_round_complete applied to the table (app.py:227-243).
FnIsBettingRoundComplete ==
    /\ FnFresh
    /\ last' = [op |-> "is_betting_round_complete",
                result |-> is_betting_round_complete(Table)]
    /\ FnFrame

FnNext ==
    \/ \E equity \in FnEquities : FnDemoBotAction(equity)
    \/ FnIsBettingRoundComplete
    \/ FnComputeValidActions
    \/ FnSafeDefaultAction
    \/ \E content \in LLMContents : FnLlmBotAction(content)

SpecFn == FnInit /\ [][FnNext]_vars

---------------------------------------------------------------------------
(* The dealing alone, under many shuffles: start_game at table creation and
   for a next hand, and progress_betting_round at the end of each betting
   round of a hand in which every seat stays in. *)

DealSeeds == 0..MaxDealSeed

DealFrame ==
    UNCHANGED <<auto_deal_timers, auto_pending, bot_action_timers, bot_pending, paused>>

\* create_new_game: the first hand is dealt (app.py:828-831).
DealFirstHand(cfg, k) ==
    /\ ~Exists
    /\ games' = [g \in {GAME_ID} |->
                    start_game([ community_cards |-> <<>>, pot |-> 0, current_bet |-> 0,
                                 players |-> [i \in 0..(cfg.num_players - 1) |->
                                                 NewPlayer(SeatType(i), cfg.starting_chips)],
                                 current_player_index |-> -1, game_stage |-> "waiting",
                                 small_blind |-> cfg.small_blind,
                                 big_blind |-> cfg.big_blind,
                                 max_players |-> cfg.num_players,
                                 starting_chips |-> cfg.starting_chips ], k)]
    /\ hands_dealt' = cfg.num_players
    /\ last' = Event("create_new_game", None, -1, "")
    /\ DealFrame

\* The betting round ends with every seat still in: progress_betting_round.
DealNextStreet(k) ==
    /\ Exists
    /\ Table.game_stage \in {"pre_flop", "flop", "turn", "river"}
    /\ games' = [games EXCEPT ![GAME_ID] = progress_betting_round(Table, k)]
    /\ last' = Event("progress_betting_round", None, -1, "")
    /\ UNCHANGED hands_dealt
    /\ DealFrame

\* The next hand is dealt (auto_deal_next_hand, manual_deal_next_hand): start_game.
DealNextHand(k) ==
    /\ Exists
    /\ hands_dealt + SeatsDealt(Table) <= MaxDealt
    /\ games' = [games EXCEPT ![GAME_ID] = start_game(Table, k)]
    /\ hands_dealt' = hands_dealt + SeatsDealt(Table)
    /\ last' = Event("start_game", None, -1, "")
    /\ DealFrame

DealNext ==
    \/ \E cfg \in TableConfigs, k \in DealSeeds : DealFirstHand(cfg, k)
    \/ \E k \in DealSeeds : DealNextStreet(k)
    \/ \E k \in DealSeeds : DealNextHand(k)

SpecDeal == Init /\ [][DealNext]_vars

---------------------------------------------------------------------------
(* Hand starts on tables of 2 to MaxStartSeats seats: the first hand dealt at
   creation and the hands dealt after it (app.py:85-180). *)

StartConfigs ==
    {[num_players |-> n, starting_chips |-> 4, small_blind |-> 1, big_blind |-> 2] :
        n \in 2..MaxStartSeats}

\* The next hand is dealt (auto_deal_next_hand, manual_deal_next_hand): start_game.
StartNextHand(k) ==
    /\ Exists
    /\ hands_dealt + SeatsDealt(Table) <= MaxStartDealt
    /\ games' = [games EXCEPT ![GAME_ID] = start_game(Table, k)]
    /\ hands_dealt' = hands_dealt + SeatsDealt(Table)
    /\ last' = Event("start_game", None, -1, "")
    /\ DealFrame

StartNext ==
    \/ \E cfg \in StartConfigs, k \in DealSeeds : DealFirstHand(cfg, k)
    \/ \E k \in DealSeeds : StartNextHand(k)

SpecStart == Init /\ [][StartNext]_vars

---------------------------------------------------------------------------
(* One trial of the equity simulation (app.py:717-737, players.py:152-168).
   pokerkit's StandardHighHand values are totally ordered; a trial compares the
   player's value pb with the opponents' values opps in the order dealt. *)

\* The comparison loop of run_simulation from opponent j on: the flags
\* player_wins and is_tie when the loop ends or breaks (app.py:717-730).
RECURSIVE run_simulation_compare(_, _, _, _)
run_simulation_compare(pb, opps, j, is_tie) ==
    IF j > Len(opps) THEN [player_wins |-> TRUE, is_tie |-> is_tie]
    ELSE IF pb < opps[j] THEN [player_wins |-> FALSE, is_tie |-> is_tie]
    ELSE run_simulation_compare(pb, opps, j + 1, is_tie \/ pb = opps[j])

\* The comparison loop of estimate_equity: a loss also clears is_tie
\* (players.py:152-163).
RECURSIVE estimate_equity_compare(_, _, _, _)
estimate_equity_compare(pb, opps, j, is_tie) ==
    IF j > Len(opps) THEN [player_wins |-> TRUE, is_tie |-> is_tie]
    ELSE IF pb < opps[j] THEN [player_wins |-> FALSE, is_tie |-> FALSE]
    ELSE estimate_equity_compare(pb, opps, j + 1, is_tie \/ pb = opps[j])

\* How the trial is counted (app.py:732-737, players.py:165-168; estimate_equity
\* counts no losses, a trial that is neither a win nor a tie is one).
TrialCount(flags) ==
    IF flags.player_wins /\ ~flags.is_tie THEN "win"
    ELSE IF flags.is_tie THEN "tie"
    ELSE "loss"

run_simulation_trial(pb, opps) == TrialCount(run_simulation_compare(pb, opps, 1, FALSE))

estimate_equity_trial(pb, opps) == TrialCount(estimate_equity_compare(pb, opps, 1, FALSE))

SimStrengths == 0..MaxStrength

SimOpponents == UNION {[1..n -> SimStrengths] : n \in 0..MaxOpponents}

\* One trial of each simulator on the same hands.
SimTrial(pb, opps) ==
    /\ last.op = "init"
    /\ last' = [op |-> "run_simulation", player |-> pb, opponents |-> opps,
                result |-> run_simulation_trial(pb, opps),
                estimate |-> estimate_equity_trial(pb, opps)]
    /\ UNCHANGED <<games, auto_deal_timers, auto_pending, bot_action_timers,
                   bot_pending, hands_dealt, paused>>

SimNext == \E pb \in SimStrengths, opps \in SimOpponents : SimTrial(pb, opps)

SpecSim == Init /\ [][SimNext]_vars

---------------------------------------------------------------------------
(* Interleaved handlers. The timer maps are plain dicts shared by the request
   threads and the threading.Timer threads, and nothing serializes them
   (app.py:8, 24-29). One handler thread at a time may be suspended between two
   of its statements while other handlers run to completion:
     "act"  in process_player_action, after the turn and activity checks and
            before the action is applied (app.py:538-555);
     "bot"  in maybe_trigger_bot_turn, after existing.cancel() and before
            timer.start() (app.py:500-507);
     "auto" in the showdown tail of process_player_action, after cancel() and
            before timer.start() (app.py:631-638);
     "del"  in auto_deal_next_hand, before the map entry is removed
            (app.py:273-277). *)

\* The requests explored: the seat in turn folds, calls or checks.
RaceActions == {"fold", "call", "check"}

\* Whether a handler may be suspended now.
CanPause(pending) == paused = NotPaused /\ pending < MaxPending

\* The tail of process_player_action (app.py:630-640) with its suspension points.
RaceTail(gs, bref, bpend, pause) ==
    IF gs.game_stage = "showdown"
    THEN LET c == Cancel(auto_deal_timers, auto_pending)
             auto == IF pause THEN c ELSE Start(c.pending)
         IN /\ pause => CanPause(c.pending)
            /\ auto_deal_timers' = auto.ref
            /\ auto_pending' = auto.pending
            /\ paused' = IF pause THEN Paused("auto", -1, "") ELSE paused
            /\ bot_action_timers' = bref
            /\ bot_pending' = bpend
    ELSE IF BotDue(gs)
    THEN LET c == Cancel(bref, bpend)
             bot == IF pause THEN c ELSE Start(c.pending)
         IN /\ pause => CanPause(c.pending)
            /\ bot_action_timers' = bot.ref
            /\ bot_pending' = bot.pending
            /\ paused' = IF pause THEN Paused("bot", -1, "") ELSE paused
            /\ UNCHANGED <<auto_deal_timers, auto_pending>>
    ELSE /\ ~pause
         /\ bot_action_timers' = bref
         /\ bot_pending' = bpend
         /\ UNCHANGED <<auto_deal_timers, auto_pending, paused>>

\* create_new_game (app.py:773-837).
RaceCreate(cfg) ==
    /\ ~Exists
    /\ CreateNewGame(cfg, 0)

\* POST /game/<id>/action for the seat in turn (app.py:913-935).
RaceAction(action, pause) ==
    /\ Exists
    /\ Table.current_player_index \in DOMAIN Table.players
    /\ LET idx == Table.current_player_index
           r == process_player_action(Table, JInt(idx), action, 0, 0)
       IN /\ r.error = None
          /\ games' = [games EXCEPT ![GAME_ID] = r.game_state]
          /\ RaceTail(r.game_state, bot_action_timers, bot_pending, pause)
          /\ last' = Event("player_action", None, idx, action)
    /\ UNCHANGED hands_dealt

\* A bot-action timer fires (app.py:510-532); the advisory capability gives no reply.
RaceBotFires(which, pause) ==
    /\ Exists
    /\ CanFire(which, bot_action_timers, bot_pending)
    /\ LET bref == AfterFire(which, bot_action_timers)
           bpend == bot_pending - 1
           idx == Table.current_player_index
           due == /\ idx \in DOMAIN Table.players
                  /\ Table.players[idx].is_active
                  /\ ~Table.players[idx].folded
                  /\ is_bot_player(Table.players[idx])
           p == Table.players[idx]
           d == IF p.player_type = PLAYER_TYPE_DEMO
                THEN Decision(demo_bot_action(Table, p).action,
                              demo_bot_action(Table, p).amount)
                ELSE llm_bot_action(Table, p, Content("none", ParsedNone))
           r == process_player_action(Table, JInt(idx), d.action, d.amount, 0)
       IN IF ~due \/ r.error # None
          THEN /\ ~pause
               /\ games' = [games EXCEPT ![GAME_ID] = IF due THEN r.game_state ELSE Table]
               /\ last' = Event("bot_take_action", IF due THEN r.error ELSE "not due", -1, "")
               /\ bot_action_timers' = bref
               /\ bot_pending' = bpend
               /\ UNCHANGED <<auto_deal_timers, auto_pending, paused>>
          ELSE /\ games' = [games EXCEPT ![GAME_ID] = r.game_state]
               /\ RaceTail(r.game_state, bref, bpend, pause)
               /\ last' = Event("bot_take_action", None, idx, d.action)
    /\ UNCHANGED hands_dealt

\* An auto-deal timer fires (app.py:258-277).
RaceAutoFires(which, pause, limit) ==
    /\ Exists
    /\ CanFire(which, auto_deal_timers, auto_pending)
    /\ hands_dealt + SeatsDealt(Table) <= limit
    /\ pause => CanPause(auto_pending - 1)
    /\ LET gs == start_game(Table, 0)
           bot == maybe_trigger_bot_turn(gs, bot_action_timers, bot_pending)
       IN /\ games' = [games EXCEPT ![GAME_ID] = gs]
          /\ bot_action_timers' = bot.ref
          /\ bot_pending' = bot.pending
          /\ hands_dealt' = hands_dealt + SeatsDealt(Table)
    /\ auto_deal_timers' = IF pause THEN AfterFire(which, auto_deal_timers) ELSE "none"
    /\ auto_pending' = auto_pending - 1
    /\ paused' = IF pause THEN Paused("del", -1, "") ELSE paused
    /\ last' = Event("auto_deal_next_hand", None, -1, "")

\* POST /game/<id>/deal (app.py:753-770).
RaceManualDeal(limit) ==
    /\ Exists
    /\ hands_dealt + SeatsDealt(Table) <= limit
    /\ games' = [games EXCEPT ![GAME_ID] = start_game(Table, 0)]
    /\ hands_dealt' = hands_dealt + SeatsDealt(Table)
    /\ last' = Event("manual_deal_next_hand", None, -1, "")
    /\ UNCHANGED <<auto_deal_timers, auto_pending, bot_action_timers, bot_pending, paused>>

\* The suspended handler runs on: it starts and stores its Timer, or removes
\* the map entry.
RaceResume ==
    /\ paused.kind \in {"bot", "auto", "del"}
    /\ paused' = NotPaused
    /\ last' = Event("resume", None, -1, paused.kind)
    /\ IF paused.kind = "bot"
       THEN /\ bot_action_timers' = Start(bot_pending).ref
            /\ bot_pending' = Start(bot_pending).pending
            /\ UNCHANGED <<auto_deal_timers, auto_pending>>
       ELSE /\ auto_deal_timers' = IF paused.kind = "auto" THEN Start(auto_pending).ref
                                  ELSE "none"
            /\ auto_pending' = IF paused.kind = "auto" THEN Start(auto_pending).pending
                               ELSE auto_pending
            /\ UNCHANGED <<bot_action_timers, bot_pending>>
    /\ UNCHANGED <<games, hands_dealt>>

RaceNext ==
    \/ \E cfg \in TableConfigs : RaceCreate(cfg)
    \/ \E action \in RaceActions, pause \in BOOLEAN : RaceAction(action, pause)
    \/ \E which \in {"ref", "other"}, pause \in BOOLEAN : RaceBotFires(which, pause)
    \/ \E which \in {"ref", "other"}, pause \in BOOLEAN :
          RaceAutoFires(which, pause, MaxDealt)
    \/ RaceManualDeal(MaxDealt)
    \/ RaceResume

SpecRace == Init /\ [][RaceNext]_vars

---------------------------------------------------------------------------
(* A request suspended between its turn check and its update. Other handlers
   run to completion meanwhile; the hand is the one dealt at creation. *)

\* process_player_action passes the checks of app.py:538-553 for the seat in
\* turn and is preempted before app.py:555.
RaceHoldAction(action) ==
    /\ Exists
    /\ paused = NotPaused
    /\ Table.current_player_index \in DOMAIN Table.players
    /\ ValidateRequest(Table, JInt(Table.current_player_index), action) = None
    /\ paused' = Paused("act", Table.current_player_index, action)
    /\ last' = Event("turn_check", None, Table.current_player_index, action)
    /\ UNCHANGED <<games, auto_deal_timers, auto_pending, bot_action_timers,
                   bot_pending, hands_dealt>>

\* The suspended request runs on from app.py:555 on the table as it is now.
RaceApplyHeld ==
    /\ paused.kind = "act"
    /\ paused' = NotPaused
    /\ LET r == ApplyChecked(Table, paused.seat, paused.action, 0, 0)
       IN IF r.error # None
          THEN /\ last' = Event("player_action", r.error, -1, "")
               /\ UNCHANGED <<games, auto_deal_timers, auto_pending,
                              bot_action_timers, bot_pending>>
          ELSE /\ games' = [games EXCEPT ![GAME_ID] = r.game_state]
               /\ AfterAccepted(r.game_state, bot_action_timers, bot_pending)
               /\ last' = Event("player_action", None, paused.seat, paused.action)
    /\ UNCHANGED hands_dealt

TurnNext ==
    \/ \E cfg \in TableConfigs : RaceCreate(cfg)
    \/ \E action \in RaceActions : RaceAction(action, FALSE)
    \/ \E which \in {"ref", "other"} : RaceBotFires(which, FALSE)
    \/ \E action \in RaceActions : RaceHoldAction(action)
    \/ RaceApplyHeld

SpecTurn == Init /\ [][TurnNext]_vars

---------------------------------------------------------------------------
(* Timers that outlive their hand. One heads-up table, every handler running
   to completion alone, the seat in turn acting, and enough hands for a deal
   request to be followed by the auto-deal timer of the hand before it. *)

HeadsUpConfig ==
    [num_players |-> 2, starting_chips |-> 4, small_blind |-> 1, big_blind |-> 2]

StaleNext ==
    \/ RaceCreate(HeadsUpConfig)
    \/ \E action \in RaceActions : RaceAction(action, FALSE)
    \/ \E which \in {"ref", "other"} : RaceBotFires(which, FALSE)
    \/ \E which \in {"ref", "other"} : RaceAutoFires(which, FALSE, MaxStaleDealt)
    \/ RaceManualDeal(MaxStaleDealt)

SpecStale == Init /\ [][StaleNext]_vars

---------------------------------------------------------------------------
(* A request suspended between the stage test of app.py:630 and the call of
   resolve_showdown at app.py:631. The table is the dict the other handlers
   mutate in place, so the showdown is resolved on the table as it is when the
   request runs on. *)

\* process_player_action for the seat in turn runs to the stage test
\* (app.py:535-630), finds the stage to be showdown and is preempted.
ShowdownHold(action) ==
    /\ Exists
    /\ paused = NotPaused
    /\ Table.current_player_index \in DOMAIN Table.players
    /\ LET idx == Table.current_player_index
           r == ApplyAction(Table, idx, action, 0)
           moved == AdvanceTurn(r.game_state, 0)
       IN /\ ValidateRequest(Table, JInt(idx), action) = None
          /\ r.error = None
          /\ moved.game_stage = "showdown"
          /\ games' = [games EXCEPT ![GAME_ID] = moved]
          /\ paused' = Paused("show", idx, action)
          /\ last' = Event("game_action", None, idx, action)
    /\ UNCHANGED <<auto_deal_timers, auto_pending, bot_action_timers,
                   bot_pending, hands_dealt>>

\* The suspended request runs on: resolve_showdown on the table as it is now,
\* then the auto-deal timer is replaced (app.py:631-638).
ShowdownResume ==
    /\ paused.kind = "show"
    /\ paused' = NotPaused
    /\ games' = [games EXCEPT ![GAME_ID] = resolve_showdown(Table)]
    /\ LET auto == Reschedule(auto_deal_timers, auto_pending)
       IN /\ auto_deal_timers' = auto.ref
          /\ auto_pending' = auto.pending
    /\ last' = Event("resolve_showdown", None, paused.seat, paused.action)
    /\ UNCHANGED <<bot_action_timers, bot_pending, hands_dealt>>

ShowNext ==
    \/ \E cfg \in TableConfigs : RaceCreate(cfg)
    \/ \E action \in RaceActions : RaceAction(action, FALSE)
    \/ \E action \in RaceActions : ShowdownHold(action)
    \/ RaceManualDeal(MaxDealt)
    \/ ShowdownResume

SpecShow == Init /\ [][ShowNext]_vars

---------------------------------------------------------------------------
(* A bot-action callback suspended while it waits for its decision. The seat
   is read and tested when the timer fires (app.py:513-518); the decision is
   made on the table of that moment and submitted for that seat when the
   advisory call returns (app.py:520-532), other handlers running meanwhile. *)

\* bot_take_action passes its tests for the seat at current_player_index and
\* waits for the decision (app.py:510-523); the advisory capability gives no reply.
BotHold(which) ==
    /\ Exists
    /\ paused = NotPaused
    /\ CanFire(which, bot_action_timers, bot_pending)
    /\ LET idx == Table.current_player_index
           p == Table.players[idx]
           d == IF p.player_type = PLAYER_TYPE_DEMO
                THEN Decision(demo_bot_action(Table, p).action,
                              demo_bot_action(Table, p).amount)
                ELSE llm_bot_action(Table, p, Content("none", ParsedNone))
       IN /\ idx \in DOMAIN Table.players
          /\ p.is_active /\ ~p.folded /\ is_bot_player(p)
          /\ paused' = Paused("llm", idx, d.action)
          /\ last' = Event("bot_decides", None, idx, d.action)
    /\ bot_action_timers' = AfterFire(which, bot_action_timers)
    /\ bot_pending' = bot_pending - 1
    /\ UNCHANGED <<games, auto_deal_timers, auto_pending, hands_dealt>>

\* The decision is submitted: process_player_action for the seat read when the
\* timer fired, on the table as it is now (app.py:526-532).
BotApplyHeld ==
    /\ paused.kind = "llm"
    /\ paused' = NotPaused
    /\ LET r == process_player_action(Table, JInt(paused.seat), paused.action, 0, 0)
       IN IF r.error # None
          THEN /\ last' = Event("bot_take_action", r.error, -1, "")
               /\ UNCHANGED <<games, auto_deal_timers, auto_pending,
                              bot_action_timers, bot_pending>>
          ELSE /\ games' = [games EXCEPT ![GAME_ID] = r.game_state]
               /\ AfterAccepted(r.game_state, bot_action_timers, bot_pending)
               /\ last' = Event("bot_take_action", None, paused.seat, paused.action)
    /\ UNCHANGED hands_dealt

BotNext ==
    \/ \E cfg \in TableConfigs : RaceCreate(cfg)
    \/ \E action \in RaceActions : RaceAction(action, FALSE)
    \/ \E which \in {"ref", "other"} : RaceBotFires(which, FALSE)
    \/ \E which \in {"ref", "other"} : BotHold(which)
    \/ BotApplyHeld
    \/ RaceManualDeal(MaxDealt)

SpecBot == Init /\ [][BotNext]_vars

---------------------------------------------------------------------------
(* Properties. *)

BettingStages == {"pre_flop", "flop", "turn", "river"}

ActionOps == {"player_action", "bot_take_action"}

\* The step is an accepted action (by request or by bot timer).
AcceptedStep == Exists /\ last'.op \in ActionOps /\ last'.error = None

\* The step is a rejected action request.
RejectedStep ==
    Exists /\ last'.op = "player_action" /\ last'.error # None

Timers == <<auto_deal_timers, auto_pending, bot_action_timers, bot_pending>>

\* C1: every accepted action, with the showdown resolution it may trigger,
\* leaves the sum of all seats' chips plus the pot unchanged.
C1_ChipsConserved ==
    [][AcceptedStep => TotalChips(games'[GAME_ID]) = TotalChips(Table)]_vars

\* An accepted action has ended the hand and the pot has been paid to a seat.
C1_Witness ==
    /\ Exists
    /\ last.op \in ActionOps /\ last.error = None
    /\ Table.game_stage = "showdown" /\ Table.pot = 0
    /\ \E i \in DOMAIN Table.players : Table.players[i].chips > Table.starting_chips

\* The step is a bot timer firing whose action is not taken or is rejected.
RejectedBotStep ==
    Exists /\ last'.op = "bot_take_action" /\ last'.error # None

\* C2: a rejected action request leaves the table state unchanged and neither
\* schedules nor cancels a timer; a rejected bot action leaves the table state
\* and the auto-deal timers unchanged and starts no bot timer in place of the
\* one that fired.
C2_RejectionChangesNothing ==
    [][/\ RejectedStep => UNCHANGED <<games, Timers>>
       /\ RejectedBotStep =>
              /\ UNCHANGED <<games, auto_deal_timers, auto_pending>>
              /\ bot_pending' = bot_pending - 1
              /\ bot_action_timers' # "pending"]_vars

\* A call was rejected for lack of chips while a bot timer was pending.
C2_Witness ==
    /\ Exists
    /\ last.op = "player_action" /\ last.error = ERR_CALL_CHIPS
    /\ bot_pending > 0

\* C3: after an accepted raise made while another live seat has already acted
\* in this betting round, the round does not end with that step: the stage
\* and the community cards stay as they are until that seat has acted again.
C3_RaiseReopensAction ==
    [][(/\ AcceptedStep
        /\ last'.action = "raise"
        /\ Table.game_stage \in BettingStages
        /\ \E x \in DOMAIN Table.players :
              /\ x # last'.seat
              /\ Table.players[x].is_active /\ ~Table.players[x].folded
              /\ Table.players[x].acted_this_round)
       => /\ games'[GAME_ID].game_stage = Table.game_stage
          /\ games'[GAME_ID].community_cards = Table.community_cards]_vars

\* C4: whenever a bot seat is due to act in a betting stage, the action that
\* safe_default_action returns for it is accepted.
C4_BotCanAlwaysAct ==
    (Exists /\ BotDue(Table)) =>
        LET p == Table.players[Table.current_player_index]
            d == safe_default_action(Table, p)
        IN process_player_action(Table, JInt(Table.current_player_index),
                                 d.action, d.amount, 0).error = None

\* C5: every request with a valid action name whose integer seat id is
\* outside 0..N-1 is rejected with "Invalid player ID".
C5_OutOfRangeIsInvalidSeat ==
    Exists =>
        \A pid \in PlayerIds, action \in Actions :
            (pid.t = "int" /\ pid.v \notin DOMAIN Table.players) =>
                process_player_action(Table, pid, action, 0, 0).error
                    = ERR_INVALID_SEAT

\* The seat due to act, when it is a seat of the table that may act.
SeatToAct ==
    IF Exists /\ Table.current_player_index \in DOMAIN Table.players
              /\ Table.players[Table.current_player_index].is_active
    THEN {Table.current_player_index} ELSE {}

\* C6: a call by the seat to act is rejected with "Insufficient chips to call"
\* exactly when current_bet - seat.current_bet > seat.chips; otherwise the seat
\* pays that difference into the pot, its current_bet becomes the table's and
\* it is marked as having acted.
C6_Call ==
    \A i \in SeatToAct :
        LET p == Table.players[i]
            diff == Table.current_bet - p.current_bet
            whole == process_player_action(Table, JInt(i), "call", 0, 0)
            r == ApplyAction(Table, i, "call", 0)
            q == r.game_state.players[i]
        IN /\ (whole.error = ERR_CALL_CHIPS) <=> (diff > p.chips)
           /\ (diff > p.chips) => whole.game_state = Table
           /\ ~(diff > p.chips) =>
                 /\ whole.error = None
                 /\ q.chips = p.chips - diff
                 /\ r.game_state.pot = Table.pot + diff
                 /\ q.current_bet = Table.current_bet
                 /\ q.acted_this_round
                 /\ r.game_state.current_bet = Table.current_bet

\* A call request has been rejected for lack of chips.
C6_Witness ==
    /\ Exists
    /\ last.op = "player_action" /\ last.error = ERR_CALL_CHIPS
    /\ SeatToAct # {}

\* C7: a raise to amount by the seat to act is rejected with "Raise must be at
\* least" when amount < max(current_bet + big_blind, 2 * current_bet), else
\* with "Insufficient chips to raise" when amount - seat.current_bet > chips;
\* otherwise the seat pays amount - seat.current_bet into the pot and both
\* seat.current_bet and table.current_bet become amount.
C7_Raise ==
    \A i \in SeatToAct : \A amount \in Amounts :
        LET p == Table.players[i]
            small == amount < Max(Table.current_bet + Table.big_blind,
                                  2 * Table.current_bet)
            short == amount - p.current_bet > p.chips
            whole == process_player_action(Table, JInt(i), "raise", amount, 0)
            r == ApplyAction(Table, i, "raise", amount)
            q == r.game_state.players[i]
        IN /\ small => whole.error = ERR_RAISE_SMALL
           /\ (~small /\ short) => whole.error = ERR_RAISE_CHIPS
           /\ (~small /\ ~short) =>
                 /\ whole.error = None
                 /\ q.chips = p.chips - (amount - p.current_bet)
                 /\ r.game_state.pot = Table.pot + (amount - p.current_bet)
                 /\ q.current_bet = amount
                 /\ r.game_state.current_bet = amount

\* A raise that is large enough has been rejected for lack of chips.
C7_Witness ==
    /\ Exists
    /\ last.op = "player_action" /\ last.error = ERR_RAISE_CHIPS
    /\ SeatToAct # {}

StageEdges ==
    { <<"waiting", "pre_flop">>, <<"pre_flop", "flop">>, <<"flop", "turn">>,
      <<"turn", "river">>, <<"river", "showdown">>, <<"showdown", "pre_flop">>,
      <<"showdown", "waiting">> }

\* C10: the stage changes only along the edges of the stage machine, or from
\* a betting stage to showdown when at most one live seat remains.
C10_StageEdges ==
    [][(Exists /\ games'[GAME_ID].game_stage # Table.game_stage) =>
          \/ <<Table.game_stage, games'[GAME_ID].game_stage>> \in StageEdges
          \/ /\ Table.game_stage \in BettingStages
             /\ games'[GAME_ID].game_stage = "showdown"
             /\ Len(ActiveNotFolded(games'[GAME_ID])) <= 1]_vars

\* C8: compute_valid_actions offers raise iff seat.current_bet + seat.chips >=
\* max(current_bet + big_blind, 2 * current_bet) and seat.chips > 0, never to a
\* seat with 0 chips, and offers check iff seat.current_bet = current_bet and
\* call otherwise.
C8_ValidActions ==
    last.op = "compute_valid_actions" =>
        LET p == FnSeat0
            valid == last.result.valid_actions
            floor == Max(Table.current_bet + Table.big_blind, 2 * Table.current_bet)
        IN /\ ("raise" \in valid) <=> (p.current_bet + p.chips >= floor /\ p.chips > 0)
           /\ p.chips = 0 => "raise" \notin valid
           /\ ("check" \in valid) <=> (p.current_bet = Table.current_bet)
           /\ ("call" \in valid) <=> (p.current_bet # Table.current_bet)
           /\ "fold" \in valid
           /\ last.result.min_raise = floor
           /\ last.result.max_raise = p.current_bet + p.chips

\* compute_valid_actions was applied to a seat with no chips whose committed
\* bet alone reaches the minimum raise: raise is not offered.
C8_Witness ==
    /\ last.op = "compute_valid_actions"
    /\ FnSeat0.chips = 0
    /\ FnSeat0.current_bet >= last.result.min_raise
    /\ "raise" \notin last.result.valid_actions

\* C9: safe_default_action returns check if check is valid, else call if call
\* is valid, else fold, with amount 0, and never raise.
C9_SafeDefault ==
    last.op = "safe_default_action" =>
        LET valid == compute_valid_actions(Table, FnSeat0).valid_actions
        IN /\ last.result.action =
                 (IF "check" \in valid THEN "check"
                  ELSE IF "call" \in valid THEN "call" ELSE "fold")
           /\ last.result.action # "raise"
           /\ last.result.amount = 0

\* safe_default_action was applied to a seat that faces a bet and may raise: it calls.
C9_Witness ==
    /\ last.op = "safe_default_action"
    /\ FnSeat0.current_bet < Table.current_bet
    /\ "raise" \in compute_valid_actions(Table, FnSeat0).valid_actions
    /\ last.result.action = "call"

\* C11: every seat's chip stack is non-negative in every reachable state.
C11_ChipsNonNegative ==
    Exists => \A i \in DOMAIN Table.players : Table.players[i].chips >= 0

\* The seats that are active and have not folded.
LiveSeats == {i \in DOMAIN Table.players :
                 Table.players[i].is_active /\ ~Table.players[i].folded}

\* C12: in every betting stage the table's current_bet is the maximum of the
\* current_bet of the active non-folded seats.
C12_CurrentBetIsMax ==
    (Exists /\ Table.game_stage \in BettingStages) =>
        /\ \E i \in LiveSeats : Table.players[i].current_bet = Table.current_bet
        /\ \A i \in LiveSeats : Table.players[i].current_bet <= Table.current_bet

\* The seats start_game deals in: active and not pending.
DealtSeats == {i \in DOMAIN Table.players :
                  Table.players[i].is_active /\ ~Table.players[i].pending_active}

\* The hole cards of the dealt seats and the community cards, as one sequence.
RECURSIVE HoleCardsOf(_)
HoleCardsOf(seats) ==
    IF seats = <<>> THEN <<>>
    ELSE Table.players[Head(seats)].hole_cards \o HoleCardsOf(Tail(seats))

CardsInPlay == HoleCardsOf(SortedSeq(DealtSeats)) \o Table.community_cards

\* C13: once a hand has started, there are at least 2 dealt seats, each holds
\* exactly 2 hole cards, every other seat holds none, and the hole cards of
\* the dealt seats and the community cards are pairwise distinct cards of the
\* 52-card deck.
C13_CardsDistinct ==
    (Exists /\ Table.game_stage # "waiting") =>
        /\ Cardinality(DealtSeats) >= 2
        /\ \A i \in DealtSeats : Len(Table.players[i].hole_cards) = 2
        /\ \A i \in DOMAIN Table.players \ DealtSeats :
               Len(Table.players[i].hole_cards) = 0
        /\ \A a, b \in DOMAIN CardsInPlay :
               a # b => CardsInPlay[a] # CardsInPlay[b]
        /\ Range(CardsInPlay) \subseteq 0..(DeckSize - 1)

\* A three-seat hand dealt from a shuffle other than the identity has reached
\* the river: 6 hole cards and 5 community cards are in play.
C13_Witness ==
    /\ Exists
    /\ Table.game_stage = "river"
    /\ Len(CardsInPlay) = 11
    /\ Table.players[0].hole_cards # <<0, 1>>
    /\ Table.community_cards # <<6, 7, 8, 9, 10>>

\* The active non-folded seats of gs and the strength of a seat's hand.
LiveSeatsOf(gs) == {i \in DOMAIN gs.players :
                       gs.players[i].is_active /\ ~gs.players[i].folded}

Strength(gs, i) == HandValue(gs.players[i].hole_cards, gs.community_cards)

\* The seat the pot is due to: the only live seat, else the lowest-index live
\* seat whose hand strength is maximal.
DueWinner(gs) ==
    LET live == LiveSeatsOf(gs)
        best == {i \in live : \A j \in live : Strength(gs, j) <= Strength(gs, i)}
    IN IF Cardinality(live) = 1 THEN CHOOSE i \in live : TRUE
       ELSE CHOOSE i \in best : \A j \in best : i <= j

\* post is pre with the whole pot moved to the due winner and nothing else changed.
PaidOut(pre, post) ==
    LET w == DueWinner(pre)
    IN post = [pre EXCEPT !.players[w].chips = @ + pre.pot, !.pot = 0]

\* C14: whenever an action by the seat to act is accepted and leaves the table
\* in showdown with a live seat, resolve_showdown moves the whole pot to the
\* due winner, empties the pot and changes nothing else, and that is the
\* state the action returns; the same holds for the showdown that follows a
\* completed river round.
C14_ShowdownPaysOneSeat ==
    /\ \A i \in SeatToAct : \A action \in Actions : \A amount \in AmountsOf(action) :
          LET r == ApplyAction(Table, i, action, amount)
              moved == AdvanceTurn(r.game_state, 0)
          IN (r.error = None /\ moved.game_stage = "showdown"
                  /\ LiveSeatsOf(moved) # {}) =>
                /\ PaidOut(moved, resolve_showdown(moved))
                /\ process_player_action(Table, JInt(i), action, amount, 0).game_state
                       = resolve_showdown(moved)
    /\ (Exists /\ Table.game_stage = "river" /\ Cardinality(LiveSeats) >= 2) =>
          LET sd == progress_betting_round(Table, 0)
          IN sd.game_stage = "showdown" /\ PaidOut(sd, resolve_showdown(sd))

\* An accepted action has ended a hand at showdown with five community cards
\* and two live seats of equal hand strength, and the lower seat was paid.
C14_Witness ==
    /\ Exists
    /\ last.op \in ActionOps /\ last.error = None
    /\ Table.game_stage = "showdown" /\ Len(Table.community_cards) = 5
    /\ Table.pot = 0
    /\ \E i, j \in LiveSeats :
          /\ i < j
          /\ Strength(Table, i) = Strength(Table, j)
          /\ DueWinner(Table) = i
          /\ Table.players[i].chips > Table.players[j].chips

\* The reply held by last is a well-formed suggestion for seat 0: an object
\* whose action is valid and, for raise, whose amount is an integer within
\* [min_raise, max_raise].
WellFormedSuggestion ==
    LET v == last.content.value
        info == compute_valid_actions(Table, FnSeat0)
    IN /\ last.content.form \in {"json", "embedded"}
       /\ v.t = "object"
       /\ v.action \in info.valid_actions
       /\ v.action = "raise" =>
              /\ v.amount.t = "int"
              /\ v.amount.v >= info.min_raise
              /\ v.amount.v <= info.max_raise

\* C15: the decision of llm_bot_action is the advisory's suggestion when that
\* is well formed, and otherwise exactly the output of safe_default_action.
C15_SuggestionOrSafeDefault ==
    last.op = "llm_bot_action" =>
        LET v == last.content.value
        IN IF WellFormedSuggestion
           THEN last.result =
                    Decision(v.action, IF v.action = "raise" THEN v.amount.v ELSE 0)
           ELSE last.result = SafeDefault(Table, FnSeat0)

\* C16: for every reply of the advisory capability llm_bot_action returns an
\* action and an amount instead of raising an error.
C16_PolicyNeverFails ==
    last.op = "llm_bot_action" =>
        /\ ~last.result.raised
        /\ last.result.action \in Actions

\* What C17 asks of a decision d made for seat 0 with the equity held by last.
HeuristicContract(d) ==
    LET info == compute_valid_actions(Table, FnSeat0)
        to_call == Max(Table.current_bet - FnSeat0.current_bet, 0)
    IN /\ (to_call > 0 /\ last.equity = 10) => d.action = "fold"
       /\ (last.equity = 90 /\ "raise" \in info.valid_actions) =>
              /\ d.action = "raise"
              /\ d.amount >= info.min_raise
              /\ d.amount <= info.max_raise

\* C17: the demo bot the table runs folds when it faces a bet with equity
\* 0.10 and raises within [min_raise, max_raise] when its equity is 0.90 and
\* raise is valid.
C17_DemoBotHeuristic ==
    last.op = "demo_bot_action" => HeuristicContract(last.result)


\* C18: "at any instant at most one bot-action timer is pending for the table;
\* scheduling a bot decision first cancels the previously pending bot timer."
\* Holds when every handler runs to completion alone; checked here with the
\* handlers interleaved as the threads of the program can be.
C18_OneBotTimerPending ==
    bot_pending <= 1

\* The steps after which the seat due to act is settled: accepted actions and
\* hand starts.
TurnSettled ==
    /\ last.op \in {"player_action", "bot_take_action", "create_new_game",
                    "auto_deal_next_hand", "manual_deal_next_hand"}
    /\ last.error = None

\* C19: "after every accepted action and after every hand start, if the stage
\* is a betting stage and the seat at current_player_index is a bot, a
\* bot-action timer for the table is pending."
C19_BotTimerWhenBotDue ==
    (/\ Exists
     /\ TurnSettled
     /\ Table.game_stage \in BettingStages
     /\ Table.current_player_index \in DOMAIN Table.players
     /\ is_bot_player(Table.players[Table.current_player_index]))
        => bot_pending >= 1

\* C20: "whenever an accepted action leaves the table in showdown, the pot is
\* resolved and afterwards exactly one auto-deal timer is pending, any earlier
\* one having been cancelled; at no time are two auto-deal timers pending."
\* The first part is read once the handler has run to its end.
C20_OneAutoDealTimer ==
    /\ (/\ Exists
        /\ last.op \in {"player_action", "bot_take_action"}
        /\ last.error = None
        /\ Table.game_stage = "showdown"
        /\ paused.kind # "auto")
           => (Table.pot = 0 /\ auto_pending = 1)
    /\ auto_pending <= 1

\* C21: "a manual deal-next-hand request short-circuits the auto-deal timer:
\* after a manual deal has started the next hand, no auto-deal timer scheduled
\* for the previous showdown remains pending."
C21_ManualDealCancelsAutoDeal ==
    (Exists /\ last.op = "manual_deal_next_hand") => auto_pending = 0

\* C22: "timer callbacks are idempotent-safe: an auto-deal timer that fires
\* when the stage is no longer showdown, and a bot-action timer that fires when
\* the stage is showdown or waiting, leave the table state unchanged."
C22_StaleTimersChangeNothing ==
    [][ /\ (Exists /\ last'.op = "auto_deal_next_hand"
                   /\ Table.game_stage # "showdown") => games' = games
        /\ (Exists /\ last'.op = "bot_take_action"
                   /\ Table.game_stage \in {"showdown", "waiting"}) => games' = games
      ]_vars

\* C23: "mutations of one table are serialized: the turn check and the state
\* update of one action are atomic, and one turn is never consumed by two
\* accepted actions." Every accepted action is applied for the seat whose turn
\* it is at the moment it is applied.
C23_TurnConsumedOnce ==
    [][ (/\ Exists
         /\ last'.op \in {"player_action", "bot_take_action"}
         /\ last'.error = None)
            => last'.seat = Table.current_player_index ]_vars

\* The opponents of the trial just simulated whose hand is strictly better
\* than, or equal to, the player's.
BetterOpponents == {j \in DOMAIN last.opponents : last.opponents[j] > last.player}
EqualOpponents == {j \in DOMAIN last.opponents : last.opponents[j] = last.player}

\* C24: "a trial is counted as a win only if the player's hand is strictly
\* better than every opponent's, as a tie only if no opponent's hand is
\* strictly better and at least one is equal, and as a loss whenever some
\* opponent's hand is strictly better, whatever the order of comparison."
C24_TrialCounting ==
    last.op = "run_simulation" =>
        /\ last.result = "win" => (BetterOpponents = {} /\ EqualOpponents = {})
        /\ last.result = "tie" => (BetterOpponents = {} /\ EqualOpponents # {})
        /\ BetterOpponents # {} => last.result = "loss"

\* C26: "round_complete is true if and only if at most one active non-folded
\* seat remains, or every active non-folded seat has acted_this_round true and
\* its current_bet equal to table.current_bet."
C26_RoundComplete ==
    last.op = "is_betting_round_complete" =>
        (last.result <=>
            \/ Len(ActiveNotFolded(Table)) <= 1
            \/ \A i \in Range(ActiveNotFolded(Table)) :
                  /\ Table.players[i].acted_this_round
                  /\ Table.players[i].current_bet = Table.current_bet)

\* A step that applies an accepted action while the table is in a betting stage.
AcceptedBettingStep ==
    /\ Exists
    /\ last'.op \in {"player_action", "bot_take_action"}
    /\ last'.error = None
    /\ Table.game_stage \in BettingStages

\* The seats of table gs that can still act this round.
YetToAct(gs) ==
    {i \in DOMAIN gs.players : /\ gs.players[i].is_active
                               /\ ~gs.players[i].folded
                               /\ ~gs.players[i].acted_this_round}

\* How many seats after seat s, clockwise, seat i comes on a table of n seats
\* (the seat next to s is 1, s itself is n).
Clockwise(s, i, n) == ((i - s - 1) % n) + 1

\* C27: "after an accepted action that neither ends the hand nor completes the
\* betting round, current_player_index becomes the first seat, clockwise from
\* (current_player_index + 1) mod N and wrapping at most once, that is active,
\* non-folded and has not acted this round; only if no such seat exists is the
\* stage advanced instead."
C27_NextSeatClockwise ==
    [][ AcceptedBettingStep =>
          LET s == Table.current_player_index
              post == games'[GAME_ID]
              n == NumSeats(Table)
              others == YetToAct(Table) \ {s}
          IN IF post.game_stage = Table.game_stage
             THEN /\ post.current_player_index \in YetToAct(post)
                  /\ \A i \in YetToAct(post) :
                        Clockwise(s, post.current_player_index, n) <= Clockwise(s, i, n)
             ELSE \/ Len(ActiveNotFolded(post)) <= 1
                  \/ others = {}
      ]_vars

\* An accepted action has passed the turn over a folded seat to the seat after
\* it, within the same betting round.
C27_Witness ==
    /\ Exists
    /\ last.op \in {"player_action", "bot_take_action"}
    /\ last.error = None
    /\ Table.game_stage \in BettingStages
    /\ NumSeats(Table) = 3
    /\ Table.players[last.seat].acted_this_round
    /\ ~Table.players[last.seat].folded
    /\ Table.players[(last.seat + 1) % 3].folded
    /\ Table.current_player_index = (last.seat + 2) % 3
    /\ Table.current_player_index \in YetToAct(Table)

\* The seat the claim gives the first turn of a new street on table gs: the
\* small blind if it is active and has not folded, otherwise the first active
\* non-folded seat that is not the dealer (-1 if there is none).
FirstOfStreet(gs) ==
    LET sb == {i \in DOMAIN gs.players :
                  /\ gs.players[i].is_small_blind
                  /\ gs.players[i].is_active
                  /\ ~gs.players[i].folded}
        nd == {i \in DOMAIN gs.players :
                  /\ gs.players[i].is_active
                  /\ ~gs.players[i].folded
                  /\ ~gs.players[i].is_dealer}
    IN IF sb # {} THEN SortedSeq(sb)[1]
       ELSE IF nd # {} THEN SortedSeq(nd)[1]
       ELSE -1

\* C28: "after advance_stage deals into flop, turn or river,
\* current_player_index is the small-blind seat if that seat is active and has
\* not folded, and otherwise the first active non-folded seat that is not the
\* dealer."
C28_FirstToActOnStreet ==
    [][ (/\ AcceptedBettingStep
         /\ games'[GAME_ID].game_stage \in {"flop", "turn", "river"}
         /\ games'[GAME_ID].game_stage # Table.game_stage)
            => games'[GAME_ID].current_player_index = FirstOfStreet(games'[GAME_ID])
      ]_vars

\* The number of community cards a betting stage has.
StageCards(stage) ==
    CASE stage = "pre_flop" -> 0
      [] stage = "flop" -> 3
      [] stage = "turn" -> 4
      [] stage = "river" -> 5

\* The community cards of gs are those of old followed by n new ones.
DealsOnto(old, gs, n) ==
    /\ Len(gs.community_cards) = Len(old.community_cards) + n
    /\ SubSeq(gs.community_cards, 1, Len(old.community_cards)) = old.community_cards

\* C29: "in every reachable state the number of community cards matches the
\* stage: 0 in pre_flop, 3 in flop, 4 in turn, 5 in river; entering flop deals
\* exactly 3 cards, entering turn and river exactly 1 each, and entering
\* showdown deals none."
C29_CommunityCardsMatchStage ==
    /\ [](Exists /\ Table.game_stage \in BettingStages
             => Len(Table.community_cards) = StageCards(Table.game_stage))
    /\ [][ (Exists /\ games'[GAME_ID].game_stage # Table.game_stage) =>
              LET post == games'[GAME_ID]
              IN CASE post.game_stage = "flop" -> DealsOnto(Table, post, 3)
                   [] post.game_stage \in {"turn", "river"} -> DealsOnto(Table, post, 1)
                   [] post.game_stage = "showdown" -> DealsOnto(Table, post, 0)
                   [] OTHER -> TRUE
         ]_vars

\* A hand has been played to the river and then to showdown with its five cards.
C29_Witness ==
    /\ Exists
    /\ last.op \in {"player_action", "bot_take_action"}
    /\ last.error = None
    /\ Table.game_stage = "showdown"
    /\ Len(Table.community_cards) = 5

\* The last step dealt a hand: start_game has just run on the table.
HandStarted ==
    /\ Exists
    /\ last.op \in {"create_new_game", "auto_deal_next_hand",
                    "manual_deal_next_hand", "start_game"}

\* The seats that are active and not pending, in seat order: a0, a1, ...
SeatsIn(gs) ==
    SortedSeq({i \in DOMAIN gs.players :
                  gs.players[i].is_active /\ ~gs.players[i].pending_active})

\* C30: "after start_hand with k >= 2 active seats a0 < a1 < ...: the dealer
\* flag is on a0 only, the small-blind flag is on a0 if k = 2 and on a1
\* otherwise, the big-blind flag is on a1 if k = 2 and on a2 otherwise, no
\* other seat carries a dealer or blind flag, and current_player_index is a0 if
\* k <= 3 and a3 if k >= 4, which is always an active non-pending seat."
C30_DealerAndBlinds ==
    (HandStarted /\ Len(SeatsIn(Table)) >= 2) =>
        LET a == SeatsIn(Table)
            k == Len(a)
        IN /\ \A i \in DOMAIN Table.players :
                 /\ Table.players[i].is_dealer <=> i = a[1]
                 /\ Table.players[i].is_small_blind <=> i = (IF k = 2 THEN a[1] ELSE a[2])
                 /\ Table.players[i].is_big_blind <=> i = (IF k = 2 THEN a[2] ELSE a[3])
           /\ Table.current_player_index = (IF k <= 3 THEN a[1] ELSE a[4])
           /\ Table.current_player_index \in Range(a)

\* A second hand has been dealt on a table of four or more seats, and the
\* fourth seat is to act.
C30_Witness ==
    /\ HandStarted
    /\ last.op = "start_game"
    /\ Len(SeatsIn(Table)) >= 4
    /\ Table.current_player_index = SeatsIn(Table)[4]

\* A step in which resolve_showdown runs: an accepted action that leaves the
\* stage at showdown, or a suspended request running on into resolve_showdown.
ShowdownResolved ==
    /\ Exists'
    /\ \/ /\ last'.op \in ActionOps
          /\ last'.error = None
          /\ Table'.game_stage = "showdown"
       \/ last'.op = "resolve_showdown"

\* C31: "the degenerate showdown branch is unreachable: whenever a showdown is
\* resolved with two or more active non-folded seats, the board holds exactly
\* 5 community cards."
C31_DegenerateShowdownUnreachable ==
    [][ (ShowdownResolved /\ Len(ActiveNotFolded(Table')) >= 2)
            => Len(Table'.community_cards) = 5 ]_vars

\* The table is in the stage given.
StageIs(stage) == Exists /\ Table.game_stage = stage

ShowdownReached ==
    /\ StageIs("showdown")
    /\ Len(SeatsIn(Table)) >= 2
    /\ hands_dealt + SeatsDealt(Table) <= MaxDealt

\* The next hand has just been dealt: pre_flop, no community cards, every
\* active seat unfolded, yet to act and holding 2 hole cards, all different,
\* and one dealer, one small blind and one big blind flag.
NextHandDealt ==
    /\ HandStarted
    /\ Table.game_stage = "pre_flop"
    /\ Table.community_cards = <<>>
    /\ \A i \in DOMAIN Table.players :
          Table.players[i].is_active =>
             /\ ~Table.players[i].folded
             /\ ~Table.players[i].acted_this_round
             /\ Len(Table.players[i].hole_cards) = 2
    /\ Cardinality(UNION {Range(Table.players[i].hole_cards) : i \in Range(SeatsIn(Table))})
          = 2 * Len(SeatsIn(Table))
    /\ \A flag \in {"is_dealer", "is_small_blind", "is_big_blind"} :
          Cardinality({i \in DOMAIN Table.players : Table.players[i][flag]}) = 1

\* C33: "after a hand reaches showdown on a table with at least 2 active seats,
\* assuming the pending auto-deal timer eventually fires, the table eventually
\* enters pre_flop for the next hand with flags reset, community cards cleared
\* and fresh hole cards dealt."
C33_NextHandAfterShowdown == ShowdownReached ~> NextHandDealt

\* The auto-deal timer has fired at showdown and dealt the next hand.
C33_Witness ==
    /\ NextHandDealt
    /\ last.op = "auto_deal_next_hand"
    /\ hands_dealt > NumSeats(Table)

\* C34: "no action is accepted while the table's stage is showdown or waiting:
\* apply_action changes chips, bets, flags or the pot only in pre_flop, flop,
\* turn or river, so the pot of one hand is awarded exactly once."
C34_NoActionOutsideBetting ==
    [][ AcceptedStep => Table.game_stage \in BettingStages ]_vars

\* C35: "in every reachable state whose stage is pre_flop, flop, turn or river,
\* current_player_index refers to an active seat that has not folded, so every
\* accepted action is made by an active non-folded seat and a folded seat never
\* acts again in that hand."
C35_SeatToActIsLive ==
    (Exists /\ Table.game_stage \in BettingStages) =>
        /\ Table.current_player_index \in DOMAIN Table.players
        /\ Table.players[Table.current_player_index].is_active
        /\ ~Table.players[Table.current_player_index].folded

\* C36: "the total number of chips on a table (sum of all seats' chips plus the
\* pot) is the same in every reachable state of the table's lifetime: no hand
\* start, whether at creation, by auto-deal timer or by manual deal at any
\* stage, creates or destroys chips."
C36_TotalChipsConstant ==
    Exists => TotalChips(Table) = NumSeats(Table) * Table.starting_chips

\* C37: "no accepted action takes chips out of the pot: every accepted fold,
\* check, call or raise leaves the pot greater than or equal to its value
\* before the action and the acting seat's chips less than or equal to their
\* value before (showdown payout aside), i.e. the amount moved by a call or
\* raise is never negative." Steps that end in the showdown payout are left out.
C37_NoChipsOutOfPot ==
    [][ (AcceptedStep /\ Table'.game_stage # "showdown") =>
            LET i == PyIndex(Table, last'.seat)
            IN /\ Table'.pot >= Table.pot
               /\ Table'.players[i].chips <= Table.players[i].chips ]_vars

\* C38: "within one betting round (between two consecutive stage changes or
\* hand starts) no seat has more than one accepted action, so a betting round
\* ends after at most N accepted actions, N being the number of seats." A seat
\* that has not folded carries acted_this_round exactly from its accepted
\* action to the next stage change or hand start, so an accepted action of
\* such a seat that already carries the flag is its second in the round.
C38_OneActionPerRound ==
    [][ (AcceptedStep /\ Table.game_stage \in BettingStages
            /\ ~Table.players[PyIndex(Table, last'.seat)].folded)
          => ~Table.players[PyIndex(Table, last'.seat)].acted_this_round ]_vars

\* A bot-action callback has its action accepted in this step.
BotActionApplied == Exists /\ last'.op = "bot_take_action" /\ last'.error = None

\* The step is the one in which a callback that waited submits its decision.
HeldSubmits == paused.kind = "llm" /\ paused'.kind # "llm"

\* The seat the callback found at current_player_index when its timer fired:
\* the one a callback that waited holds, else the one in turn now.
SeatAtFiring ==
    IF HeldSubmits THEN paused.seat ELSE Table.current_player_index

\* C39: "a bot-action timer callback never submits an action on behalf of a
\* human seat: every action that bot_take_action applies is for the seat at
\* current_player_index at firing time, and that seat is an active, non-folded
\* seat of kind demo or llm." The seat is tested when the timer fires: a
\* callback that starts to wait has found such a seat in turn.
C39_BotActsForBotSeat ==
    /\ [][ BotActionApplied =>
              /\ last'.seat = SeatAtFiring
              /\ Table.players[last'.seat].player_type
                    \in {PLAYER_TYPE_DEMO, PLAYER_TYPE_LLM}
              /\ ~HeldSubmits =>
                    /\ Table.players[last'.seat].is_active
                    /\ ~Table.players[last'.seat].folded ]_vars
    /\ [][ (Exists /\ paused'.kind = "llm" /\ paused.kind # "llm") =>
              /\ paused'.seat = Table.current_player_index
              /\ Table.players[paused'.seat].is_active
              /\ ~Table.players[paused'.seat].folded
              /\ Table.players[paused'.seat].player_type
                    \in {PLAYER_TYPE_DEMO, PLAYER_TYPE_LLM} ]_vars

\* A bot-action callback has acted for the llm seat it found in turn.
C39_Witness ==
    /\ Exists
    /\ last.op = "bot_take_action"
    /\ last.error = None
    /\ last.seat \in DOMAIN Table.players
    /\ Table.players[last.seat].player_type = PLAYER_TYPE_LLM
====
